---- MODULE Spec2Model ----
(***************************************************************************)
(* A model of goclaw's multi-tier memory subsystem (package memory), of    *)
(* the vector store of package vector, of the SecurityManager of package   *)
(* security and of the ChatManager and MessageQueue of package chat:       *)
(*   ConversationBuffer  short-term recency buffer      (conversation buffer file) *)
(*   WorkingMemory       priority heap of active items  (working_memory.go) *)
(*   VectorMemory        long-term entry/vector maps    (vector_memory.go)  *)
(*   MemoryStore         the orchestrator owning all three (memory.go)      *)
(*   InMemoryStore       one map of vector entries      (vector/store.go)   *)
(*   SecurityManager     API keys and sessions          (security/manager.go) *)
(*   ChatManager         chat sessions, pruned          (chat/chat.go)      *)
(*   MessageQueue        channel, workers, shutdown     (chat/queue.go)     *)
(*                                                                         *)
(* Specifications:                                                         *)
(*   SpecBuffer       a ConversationBuffer driven directly by Add, Remove, *)
(*                    Clear, GetRecent and Len with caller-chosen entries. *)
(*   Spec             a MemoryStore driven through its public methods      *)
(*                    under a free clock: calls may read the same value.   *)
(*   SpecContext      GetContext on a MemoryStore with all tiers filled.   *)
(*   SpecBudget       GetContext with more long-term entries than its      *)
(*                    similarity search returns (5).                       *)
(*   SpecRecency      GetContext with more short-term entries than it      *)
(*                    asks the buffer for (10).                            *)
(*   SpecConsolidate  Consolidate with more short-term entries than it     *)
(*                    asks the buffer for (20).                            *)
(*   SpecLock         a goroutine in Consolidate and one in                *)
(*                    AddWithEmbedding, each next to readers of its mutex. *)
(*   SpecStore        an InMemoryStore driven through Add, Search, Get,    *)
(*                    Delete, List and Count within one second.            *)
(*   SpecVector       the long-term VectorMemory driven through            *)
(*                    AddLongTerm, Search, Get and Clear.                  *)
(*   SpecPairing      VectorMemory.Add step by step under vm.mu, next to   *)
(*                    Consolidate and the readers of vm.mu.                *)
(*   SpecPersist      an InMemoryStore saved to and loaded from a file     *)
(*                    that may be missing or malformed.                    *)
(*   SpecCosine       memory.cosineSimilarity and vector.Similarity on     *)
(*                    small vectors.                                       *)
(*   SpecWorking      the working tier filled beyond config.WorkingMax.    *)
(*   SpecStats        Stats, Clear and GetContext after additions to the   *)
(*                    three tiers and Consolidate.                         *)
(*   SpecSerial       several goroutines in AddShortTerm, statement by     *)
(*                    statement, next to Stats and GetContext.             *)
(*   SpecRecent       a ConversationBuffer whose GetRecent is asked for    *)
(*                    any count, negative and huge ones included.          *)
(*   SpecSecurity     a SecurityManager driven through its methods as the  *)
(*                    clock advances.                                      *)
(*   SpecHeap         the working tier filled with entries of several      *)
(*                    priorities.                                          *)
(*   SpecCalls        several goroutines in the public methods of the      *)
(*                    MemoryStore, lock operation by lock operation;       *)
(*   SpecCallsFair    the same under the scheduling of the Go runtime.     *)
(*   SpecChat         a ChatManager driven through CreateSession,          *)
(*                    AddMessage, GetMessages and DeleteSession.           *)
(*   SpecQueue        a MessageQueue with its workers, goroutines in       *)
(*                    Enqueue and one in Shutdown, statement by statement. *)
(***************************************************************************)
EXTENDS Integers, Sequences, FiniteSets, TLC

VARIABLES
    now,         \* the wall clock (time.Now()), in ticks of TickHours hours
    config,      \* MemoryStore.config : MemoryConfig
    shortTerm,   \* MemoryStore.shortTerm : *ConversationBuffer
    longTerm,    \* MemoryStore.longTerm : *VectorMemory
    workingSet,  \* MemoryStore.workingSet : *WorkingMemory
    ret,         \* the most recent call: its name, arguments and return value
    hist,        \* history since the buffer was constructed or last Cleared:
                 \* the number n of Adds, whether no Remove was called (clean),
                 \* and, while clean, the entries Added, in order
    store,       \* an InMemoryStore (package vector): its vectors map
    locks,       \* MemoryStore.mu, InMemoryStore.mu, VectorMemory.mu and
                 \* WorkingMemory.mu: the writer holding each, the number of
                 \* readers and whether a writer waits
    pc,          \* where the goroutines inside Consolidate,
                 \* AddWithEmbedding, VectorMemory.Add, AddShortTerm and the
                 \* public methods of the MemoryStore stand
    disk,        \* the file at the path given to Save and Load
    sm,          \* a SecurityManager (package security): apiKeys and sessions
    cm,          \* a ChatManager (package chat): maxMemory and sessions
    mq           \* a MessageQueue (package chat): its channel, its context,
                 \* and where its workers and the callers of Enqueue stand

vars == <<now, config, shortTerm, longTerm, workingSet, ret, hist, store, locks, pc, disk,
          sm, cm, mq>>

\* The variables of packages memory and vector, the clock and ret aside.
memoryVars == <<config, shortTerm, longTerm, workingSet, hist, store, locks, pc, disk>>

----------------------------------------------------------------------------
(* Go maps.                                                                *)

EmptyMap == [k \in {} |-> 0]

MapPut(m, k, v) == [x \in (DOMAIN m) \cup {k} |-> IF x = k THEN v ELSE m[x]]

MapDelete(m, k) == [x \in (DOMAIN m) \ {k} |-> m[x]]

Min(a, b) == IF a <= b THEN a ELSE b

\* A sync.RWMutex nobody holds and no writer waits for.
FreeMutex == [writer |-> "none", readers |-> 0, pending |-> FALSE]

\* MemoryStore.mu (m), InMemoryStore.mu (s), VectorMemory.mu (vm) and
\* WorkingMemory.mu (wm), free.
NoLocks == [m |-> FreeMutex, s |-> FreeMutex, vm |-> FreeMutex, wm |-> FreeMutex]

NumAdders == 2      \* goroutines that call AddShortTerm

Adders == 1..NumAdders

NumCallers == 2     \* goroutines that call the methods of the MemoryStore

Callers == 1..NumCallers

\* No goroutine is inside Consolidate, AddWithEmbedding, VectorMemory.Add,
\* AddShortTerm or any other method of the MemoryStore.
Idle == [consolidate |-> [at |-> "idle"], add |-> [at |-> "idle"],
         vmadd |-> [at |-> "idle"],
         short |-> [g \in Adders |-> [at |-> "idle"]],
         call  |-> [c \in Callers |-> [at |-> "idle"]]]

NewInMemoryStore == [vectors |-> EmptyMap]

\* A nil pointer result.
NilEntry == [nil |-> TRUE]

\* No file at the path (os.IsNotExist).
NoFile == [kind |-> "missing"]

\* NewSecurityManager: no API keys and no sessions.
NewSecurityManager ==
    [apiKeys |-> EmptyMap, sessions |-> EmptyMap,
     issued |-> {}, revoked |-> {}, expired |-> {}]

\* The maxMemory NewChatManager puts for a non-positive argument.
DefaultMaxMemory == 100

\* NewChatManager(maxMemory): no sessions.
NewChatManager(maxMemory) ==
    [maxMemory |-> IF maxMemory <= 0 THEN DefaultMaxMemory ELSE maxMemory,
     sessions  |-> EmptyMap,
     serial    |-> 0]

\* No MessageQueue was made.
NoQueue == [made |-> FALSE]

\* A file that json.Unmarshal cannot decode into the map of entries.
GarbageFile == [kind |-> "garbage"]

\* The elements of sequence s at the positions other than i, in order.
RemoveAt(s, i) == [j \in 1..(Len(s) - 1) |-> IF j < i THEN s[j] ELSE s[j + 1]]

----------------------------------------------------------------------------
(* MemoryEntry: the fields the three tiers read.                           *)

MemoryEntry(id, content, ts, metadata) ==
    [ID |-> id, Content |-> content, Timestamp |-> ts, Metadata |-> metadata]

----------------------------------------------------------------------------
(* ConversationBuffer: a container/list of entries plus a map from         *)
(* identifier to list element.  A list element is a record of its address  *)
(* (node) and its Value; the map holds addresses.                          *)

DefaultMaxSize == 50

NewConversationBuffer(maxSize) ==
    [maxSize |-> IF maxSize <= 0 THEN DefaultMaxSize ELSE maxSize,
     buffer  |-> << >>,
     entries |-> EmptyMap]

\* The address of a newly allocated list element: one no live element has.
NewNode(cb) ==
    CHOOSE n \in 0..Len(cb.buffer) :
        /\ \A i \in 1..Len(cb.buffer) : cb.buffer[i].node # n
        /\ \A m \in 0..(n - 1) : \E i \in 1..Len(cb.buffer) : cb.buffer[i].node = m

\* list.Remove(elem): drops the element with that address.
ListRemove(l, node) ==
    IF \E i \in 1..Len(l) : l[i].node = node
    THEN RemoveAt(l, CHOOSE i \in 1..Len(l) : l[i].node = node)
    ELSE l

\* Len that counts the keys of the index instead of the list elements.
ConversationBuffer_Len_Index(cb) == Cardinality(DOMAIN cb.entries)

ConversationBuffer_Len(cb) == Len(cb.buffer)

\* Mutant of EvictOldest: evicts only once the capacity is exceeded (> for >=).
EvictOldest_OffByOne(cb) ==
    IF Len(cb.buffer) > cb.maxSize /\ Len(cb.buffer) > 0
    THEN [cb EXCEPT !.buffer  = Tail(cb.buffer),
                    !.entries = MapDelete(cb.entries, Head(cb.buffer).Value.ID)]
    ELSE cb

\* The buffer after the eviction step of Add (lines 30-36).
EvictOldest(cb) ==
    IF Len(cb.buffer) >= cb.maxSize /\ Len(cb.buffer) > 0
    THEN [cb EXCEPT !.buffer  = Tail(cb.buffer),
                    !.entries = MapDelete(cb.entries, Head(cb.buffer).Value.ID)]
    ELSE cb

\* Mutant of ConversationBuffer_Add: PushFront for PushBack.
ConversationBuffer_Add_PushFront(cb, entry) ==
    LET ev   == EvictOldest(cb)
        elem == [node |-> NewNode(ev), Value |-> entry]
    IN  [ev EXCEPT !.buffer  = <<elem>> \o ev.buffer,
                   !.entries = MapPut(ev.entries, entry.ID, elem.node)]

ConversationBuffer_Add(cb, entry) ==
    LET ev   == EvictOldest(cb)
        elem == [node |-> NewNode(ev), Value |-> entry]
    IN  [ev EXCEPT !.buffer  = Append(ev.buffer, elem),
                   !.entries = MapPut(ev.entries, entry.ID, elem.node)]

\* Mutant of ConversationBuffer_GetRecent: walks from the front with Next.
ConversationBuffer_GetRecent_FromFront(cb, count) ==
    LET n == Len(cb.buffer)
        k == IF count <= 0 THEN 0 ELSE Min(count, n)
    IN  [i \in 1..k |-> cb.buffer[i].Value]

\* Walks from the back of the list while fewer than count entries are taken.
ConversationBuffer_GetRecent(cb, count) ==
    LET n == Len(cb.buffer)
        k == IF count <= 0 THEN 0 ELSE Min(count, n)
    IN  [i \in 1..k |-> cb.buffer[n + 1 - i].Value]

ConversationBuffer_Remove(cb, id) ==
    IF id \in DOMAIN cb.entries
    THEN [cb EXCEPT !.buffer  = ListRemove(cb.buffer, cb.entries[id]),
                    !.entries = MapDelete(cb.entries, id)]
    ELSE cb

ConversationBuffer_Clear(cb) ==
    [cb EXCEPT !.buffer = << >>, !.entries = EmptyMap]

\* The entries of the buffer, oldest first.
BufferValues(cb) == [i \in 1..Len(cb.buffer) |-> cb.buffer[i].Value]

----------------------------------------------------------------------------
(* Floating point.  A float32/float64 value is modelled in fixed point, as *)
(* the integer number of 1/Scale units, and NaN as a value of its own that *)
(* compares false with everything.                                         *)

Scale == 1000

NaN == -1000000

IsNaN(x) == x = NaN

\* Integer division truncating toward zero, as Go's / on ints (b > 0).
TruncDiv(a, b) == IF a >= 0 THEN a \div b ELSE -((-a) \div b)

FAdd(a, b) == IF IsNaN(a) \/ IsNaN(b) THEN NaN ELSE a + b

FMul(a, b) == IF IsNaN(a) \/ IsNaN(b) THEN NaN ELSE TruncDiv(a * b, Scale)

\* a / b for b >= 0; 0/0 is NaN.
FDiv(a, b) ==
    IF IsNaN(a) \/ IsNaN(b) THEN NaN
    ELSE IF b = 0 /\ a = 0 THEN NaN
    ELSE TruncDiv(a * Scale, b)

FGt(a, b) == ~IsNaN(a) /\ ~IsNaN(b) /\ a > b

FGe(a, b) == ~IsNaN(a) /\ ~IsNaN(b) /\ a >= b

FEq(a, b) == ~IsNaN(a) /\ ~IsNaN(b) /\ a = b

SqrtIterations == 20

RECURSIVE SqrtLoop(_, _, _)
SqrtLoop(x, z, i) ==
    IF i = 0 THEN z
    ELSE SqrtLoop(x, FDiv(FAdd(z, FDiv(x, z)), 2 * Scale), i - 1)

\* sqrt: Newton's method from x/2, 20 iterations (0 for x < 0).
sqrt(x) == IF x < 0 THEN 0 ELSE SqrtLoop(x, FDiv(x, 2 * Scale), SqrtIterations)

RECURSIVE DotProduct(_, _, _)
DotProduct(a, b, i) ==
    IF i = 0 THEN 0 ELSE FAdd(DotProduct(a, b, i - 1), FMul(a[i], b[i]))

cosineSimilarity(a, b) ==
    IF Len(a) # Len(b) \/ Len(a) = 0 THEN 0
    ELSE LET dotProduct == DotProduct(a, b, Len(a))
             normA == sqrt(DotProduct(a, a, Len(a)))
             normB == sqrt(DotProduct(b, b, Len(b)))
         IN  IF FEq(normA, 0) \/ FEq(normB, 0) THEN 0
             ELSE FDiv(dotProduct, FMul(normA, normB))

\* The vectors of the model: nil/empty, two unit vectors and the zero vector.
E1 == <<Scale, 0>>
E2 == <<0, Scale>>
ZeroVector == <<0, 0>>

Vectors == {<< >>, E1, E2, ZeroVector}

\* cosineSimilarity over the vectors of the model, computed once.
Similarity == [a \in Vectors, b \in Vectors |-> cosineSimilarity(a, b)]

----------------------------------------------------------------------------
(* VectorMemory: two maps keyed by identifier.                             *)

NewVectorMemory == [entries |-> EmptyMap, vectors |-> EmptyMap]

\* Line 43: vm.entries[entry.ID] = entry.
VectorMemory_PutEntry(vm, entry) ==
    [vm EXCEPT !.entries = MapPut(vm.entries, entry.ID, entry)]

\* VectorMemory.Add that opens no vector slot for a nil embedding.
VectorMemory_PutVector_SkipNil(vm, id, embedding) ==
    IF embedding = << >> THEN vm
    ELSE [vm EXCEPT !.vectors = MapPut(vm.vectors, id, embedding)]

\* Line 44: vm.vectors[entry.ID] = embedding.
VectorMemory_PutVector(vm, id, embedding) ==
    [vm EXCEPT !.vectors = MapPut(vm.vectors, id, embedding)]

VectorMemory_Add(vm, entry, embedding) ==
    VectorMemory_PutVector(VectorMemory_PutEntry(vm, entry), entry.ID, embedding)

VectorMemory_Len(vm) == Cardinality(DOMAIN vm.entries)

VectorMemory_Clear(vm) == NewVectorMemory

\* The orders in which a range over a map with key set S may visit its keys.
RECURSIVE Orders(_)
Orders(S) ==
    IF S = {} THEN {<< >>}
    ELSE UNION {{<<x>> \o o : o \in Orders(S \ {x})} : x \in S}

Swap(r, i, j) == [r EXCEPT ![i] = r[j], ![j] = r[i]]

\* The sort of Search (lines 69-75): for i, for j > i, swap when
\* results[j].similarity > results[i].similarity.
RECURSIVE SortLoop(_, _, _)
SortLoop(r, i, j) ==
    IF i > Len(r) THEN r
    ELSE IF j > Len(r) THEN SortLoop(r, i + 1, i + 2)
    ELSE IF FGt(r[j].similarity, r[i].similarity)
         THEN SortLoop(Swap(r, i, j), i, j + 1)
         ELSE SortLoop(r, i, j + 1)

\* The range over vm.vectors (lines 61-67) from position i of the order in
\* which it visits the identifiers.
RECURSIVE RangeLoop(_, _, _, _, _)
RangeLoop(results, vm, query, order, i) ==
    IF i > Len(order) THEN results
    ELSE RangeLoop(Append(results, [id |-> order[i],
                                    similarity |-> Similarity[query, vm.vectors[order[i]]]]),
                   vm, query, order, i + 1)

\* The loop that fills searchResults (lines 82-94) from position i.
RECURSIVE ResultLoop(_, _, _, _)
ResultLoop(searchResults, vm, results, i) ==
    IF i > Len(results) THEN searchResults
    ELSE ResultLoop(Append(searchResults,
                           [ID        |-> results[i].id,
                            Score     |-> results[i].similarity,
                            Content   |-> vm.entries[results[i].id].Content,
                            Timestamp |-> vm.entries[results[i].id].Timestamp]),
                    vm, results, i + 1)

\* Search, with the map range visiting the identifiers in the given order.
\* results[:limit] with a negative limit is a slice-bounds panic; otherwise
\* the results are returned with a nil error.
VectorMemory_Search(vm, query, limit, order) ==
    LET results == RangeLoop(<< >>, vm, query, order, 1)
        sorted  == SortLoop(results, 1, 2)
    IN  IF Len(sorted) > limit /\ limit < 0
        THEN [panic |-> TRUE, results |-> << >>]
        ELSE [panic |-> FALSE,
              results |-> ResultLoop(<< >>, vm,
                                     IF Len(sorted) > limit THEN SubSeq(sorted, 1, limit)
                                     ELSE sorted,
                                     1)]


----------------------------------------------------------------------------
(* WorkingMemory: a container/heap over a slice of WorkingItem, ordered by *)
(* Less(i, j) = items[i].Priority > items[j].Priority.                     *)

NewWorkingMemory(maxSize) == [items |-> << >>]

\* The dynamic values (interface{}) of a metadata bag: an int and a float64.
GoInt(n) == [type |-> "int", v |-> n]

GoFloat64(n) == [type |-> "float64", v |-> n]

\* heap.up that leaves the pushed item at the end.
HeapUp_NoSift(h, j) == h

\* heap.up(j), with 1-based positions: the parent of position j is j \div 2.
RECURSIVE HeapUp(_, _)
HeapUp(h, j) ==
    LET i == j \div 2
    IN  IF j <= 1 \/ ~(h[j].Priority > h[i].Priority) THEN h
        ELSE HeapUp(Swap(h, i, j), i)

\* Add that drops the entry once the configured maximum is reached.
WorkingMemory_Add_Capped(wm, entry) ==
    IF Len(wm.items) >= config.WorkingMax THEN wm
    ELSE LET priority == IF "priority" \in DOMAIN entry.Metadata
                            /\ entry.Metadata["priority"].type = "int"
                         THEN entry.Metadata["priority"].v ELSE 0
             item == [ID |-> entry.ID, Content |-> entry.Content,
                      Priority |-> priority, Timestamp |-> entry.Timestamp]
             pushed == Append(wm.items, item)
         IN  [items |-> HeapUp(pushed, Len(pushed))]

WorkingMemory_Add(wm, entry) ==
    LET priority == IF "priority" \in DOMAIN entry.Metadata
                       /\ entry.Metadata["priority"].type = "int"
                    THEN entry.Metadata["priority"].v ELSE 0
        item == [ID |-> entry.ID, Content |-> entry.Content,
                 Priority |-> priority, Timestamp |-> entry.Timestamp]
        pushed == Append(wm.items, item)
    IN  [items |-> HeapUp(pushed, Len(pushed))]

WorkingMemory_GetAll(wm) ==
    [i \in 1..Len(wm.items) |->
        MemoryEntry(wm.items[i].ID, wm.items[i].Content, wm.items[i].Timestamp, EmptyMap)]

WorkingMemory_Len(wm) == Len(wm.items)

WorkingMemory_Clear(wm) == [items |-> << >>]

----------------------------------------------------------------------------
(* MemoryStore.  Every public method holds the store lock for the whole    *)
(* call, so each is one atomic action.  The clock is read by the Add       *)
(* methods, for the identifier (UnixNano) and the timestamp, and by        *)
(* Consolidate (time.Since).                                               *)

Hour == 1            \* time.Hour, in hours

TickHours == 2       \* the hours in one tick of the clock

\* time.Since(t), in hours.
Since(t) == (now - t) * TickHours

SearchLimit == 5     \* GetContext's similarity search limit
RecentCount == 10    \* GetContext's GetRecent count
ConsolidateCount == 20   \* Consolidate's GetRecent count

\* Go's int, narrowed to IntBits bits (two's complement).
IntBits == 6

MaxInt == 2 ^ (IntBits - 1) - 1

WrapInt(x) == ((x + 2 ^ (IntBits - 1)) % (2 ^ IntBits)) - 2 ^ (IntBits - 1)

NewMemoryStore(cfg) ==
    [config     |-> cfg,
     shortTerm  |-> NewConversationBuffer(cfg.ShortTermMax),
     longTerm   |-> NewVectorMemory,
     workingSet |-> NewWorkingMemory(cfg.WorkingMax)]

DefaultConfig == [ShortTermMax |-> 50, WorkingMax |-> 10, SimilarityCut |-> (7 * Scale) \div 10]

\* fmt.Sprintf("st_%d", time.Now().UnixNano()) and its lt_ and wm_ kin.
NewID(prefix) == <<prefix, now>>

NoCall == [op |-> "none"]

\* AddShortTerm; elapsed is the time that passes before the next call.
AddShortTerm(content, elapsed) ==
    LET entry == MemoryEntry(NewID("st"), content, now, EmptyMap)
    IN  /\ shortTerm' = ConversationBuffer_Add(shortTerm, entry)
        /\ now' = now + elapsed
        /\ ret' = [op |-> "AddShortTerm", entry |-> entry]
        /\ UNCHANGED <<sm, cm, mq, disk, store, locks, pc, config, longTerm, workingSet, hist>>

AddLongTerm(content, embedding, elapsed) ==
    LET entry == MemoryEntry(NewID("lt"), content, now, EmptyMap)
    IN  /\ longTerm' = VectorMemory_Add(longTerm, entry, embedding)
        /\ now' = now + elapsed
        /\ ret' = [op |-> "AddLongTerm", entry |-> entry, val |-> "nil"]
        /\ UNCHANGED <<sm, cm, mq, disk, store, locks, pc, config, shortTerm, workingSet, hist>>

AddWorking(content, priority, elapsed) ==
    LET entry == MemoryEntry(NewID("wm"), content, now, [priority |-> GoInt(priority)])
    IN  /\ workingSet' = WorkingMemory_Add(workingSet, entry)
        /\ now' = now + elapsed
        /\ ret' = [op |-> "AddWorking", entry |-> entry]
        /\ UNCHANGED <<sm, cm, mq, disk, store, locks, pc, config, shortTerm, longTerm, hist>>

\* MemoryStore.Search: the projection of VectorMemory.Search's results.
MemoryStore_Search(embedding, limit, order) ==
    LET found == VectorMemory_Search(longTerm, embedding, limit, order)
    IN  [panic |-> found.panic,
         results |-> [i \in 1..Len(found.results) |->
                         [Entry |-> [ID |-> found.results[i].ID,
                                     Content |-> found.results[i].Content,
                                     Timestamp |-> found.results[i].Timestamp],
                          Score |-> found.results[i].Score]]]

Search(embedding, limit) ==
    \E order \in Orders(DOMAIN longTerm.vectors) :
        /\ ret' = [op |-> "Search", embedding |-> embedding, limit |-> limit,
                   val |-> MemoryStore_Search(embedding, limit, order)]
        /\ UNCHANGED <<sm, cm, mq, disk, store, locks, pc, now, config, shortTerm, longTerm, workingSet, hist>>

\* The three kinds of fragment; fmt.Sprintf("[MEMORY (%.2f)] %s", score, content)
\* carries the score and the content of the match.
WorkingPart(entry) == [tag |-> "WORKING", Content |-> entry.Content]

MemoryPart(r) == [tag |-> "MEMORY", Content |-> r.Content, Score |-> r.Score]

RecentPart(entry) == [tag |-> "RECENT", Content |-> entry.Content]

\* Loop 1 without its budget test.
RECURSIVE WorkingLoop_NoBudget(_, _, _, _)
WorkingLoop_NoBudget(parts, working, i, maxTokens) ==
    IF i > Len(working) THEN parts
    ELSE WorkingLoop_NoBudget(Append(parts, WorkingPart(working[i])),
                              working, i + 1, maxTokens)

\* Loop 1 of GetContext (lines 158-163) from position i of the working entries.
RECURSIVE WorkingLoop(_, _, _, _)
WorkingLoop(parts, working, i, maxTokens) ==
    IF i > Len(working) THEN parts
    ELSE IF Len(parts) >= TruncDiv(maxTokens, 3) THEN parts
    ELSE WorkingLoop(Append(parts, WorkingPart(working[i])), working, i + 1, maxTokens)

\* Loop 2 without its budget test.
RECURSIVE MemoryLoop_NoBudget(_, _, _, _)
MemoryLoop_NoBudget(parts, results, i, maxTokens) ==
    IF i > Len(results) THEN parts
    ELSE IF FGe(results[i].Score, config.SimilarityCut)
         THEN MemoryLoop_NoBudget(Append(parts, MemoryPart(results[i])),
                                  results, i + 1, maxTokens)
         ELSE MemoryLoop_NoBudget(parts, results, i + 1, maxTokens)

\* Loop 2 without its cutoff test.
RECURSIVE MemoryLoop_NoCut(_, _, _, _)
MemoryLoop_NoCut(parts, results, i, maxTokens) ==
    IF i > Len(results) THEN parts
    ELSE IF Len(parts) >= TruncDiv(WrapInt(maxTokens * 2), 3) THEN parts
    ELSE MemoryLoop_NoCut(Append(parts, MemoryPart(results[i])), results, i + 1, maxTokens)

\* Loop 2 of GetContext (lines 168-176) from position i of the search results.
RECURSIVE MemoryLoop(_, _, _, _)
MemoryLoop(parts, results, i, maxTokens) ==
    IF i > Len(results) THEN parts
    ELSE IF Len(parts) >= TruncDiv(WrapInt(maxTokens * 2), 3) THEN parts
    ELSE IF FGe(results[i].Score, config.SimilarityCut)
         THEN MemoryLoop(Append(parts, MemoryPart(results[i])), results, i + 1, maxTokens)
         ELSE MemoryLoop(parts, results, i + 1, maxTokens)

\* Loop 3 stopping at the budget.
RecentLoop_Budgeted(parts, recent, maxTokens) ==
    parts \o [i \in 1..Min(Len(recent), maxTokens - Len(parts)) |-> RecentPart(recent[i])]

\* Loop 3 of GetContext (lines 180-184); it never reads maxTokens.
RecentLoop(parts, recent, maxTokens) ==
    parts \o [i \in 1..Len(recent) |-> RecentPart(recent[i])]

\* GetContext with loop 3 ahead of loop 2.
ContextParts_RecentFirst(embedding, maxTokens, order) ==
    LET p1 == WorkingLoop(<< >>, WorkingMemory_GetAll(workingSet), 1, maxTokens)
        p2 == RecentLoop(p1, ConversationBuffer_GetRecent(shortTerm, RecentCount),
                         maxTokens)
    IN  MemoryLoop(p2, VectorMemory_Search(longTerm, embedding, SearchLimit,
                                           order).results,
                   1, maxTokens)

\* The fragments GetContext joins with newlines into the returned string,
\* with the map range of the search visiting the identifiers in the given
\* order.
ContextParts(embedding, maxTokens, order) ==
    LET p1 == WorkingLoop(<< >>, WorkingMemory_GetAll(workingSet), 1, maxTokens)
        p2 == MemoryLoop(p1, VectorMemory_Search(longTerm, embedding, SearchLimit,
                                                 order).results,
                         1, maxTokens)
    IN  RecentLoop(p2, ConversationBuffer_GetRecent(shortTerm, RecentCount), maxTokens)

\* GetContext returns the fragments of one of the orders the map range of
\* its search may take.
GetContext(embedding, maxTokens) ==
    \E parts \in {ContextParts(embedding, maxTokens, order) :
                     order \in Orders(DOMAIN longTerm.vectors)} :
        /\ ret' = [op |-> "GetContext", embedding |-> embedding, maxTokens |-> maxTokens,
                   val |-> parts]
        /\ UNCHANGED <<sm, cm, mq, disk, store, locks, pc, now, config, shortTerm, longTerm, workingSet, hist>>

\* An embedder is nil, or answers Embed(content) with an error or a vector.
NilEmbedder == [nil |-> TRUE]

Embedder(f) == [nil |-> FALSE, Embed |-> f]

EmbedError == [err |-> TRUE]

EmbedOk(v) == [err |-> FALSE, emb |-> v]

\* The loop of Consolidate (lines 204-224) from position i of recent.
RECURSIVE ConsolidateLoop(_, _, _, _, _)
ConsolidateLoop(st, lt, recent, i, embedder) ==
    IF i > Len(recent) THEN [shortTerm |-> st, longTerm |-> lt]
    ELSE LET entry == recent[i]
         IN  IF Since(entry.Timestamp) > Hour
             THEN IF ~embedder.nil /\ embedder.Embed[entry.Content].err
                  THEN ConsolidateLoop(st, lt, recent, i + 1, embedder)
                  ELSE LET embedding == IF embedder.nil THEN << >>
                                        ELSE embedder.Embed[entry.Content].emb
                       IN  ConsolidateLoop(ConversationBuffer_Remove(st, entry.ID),
                                           VectorMemory_Add(lt, entry, embedding),
                                           recent, i + 1, embedder)
             ELSE ConsolidateLoop(st, lt, recent, i + 1, embedder)

Consolidate(embedder) ==
    LET recent == ConversationBuffer_GetRecent(shortTerm, ConsolidateCount)
        done   == ConsolidateLoop(shortTerm, longTerm, recent, 1, embedder)
    IN  /\ shortTerm' = done.shortTerm
        /\ longTerm' = done.longTerm
        /\ ret' = [op |-> "Consolidate", embedder |-> embedder, val |-> "nil"]
        /\ UNCHANGED <<sm, cm, mq, disk, store, locks, pc, now, config, workingSet, hist>>

Clear ==
    /\ shortTerm' = ConversationBuffer_Clear(shortTerm)
    /\ longTerm' = VectorMemory_Clear(longTerm)
    /\ workingSet' = WorkingMemory_Clear(workingSet)
    /\ ret' = [op |-> "Clear"]
    /\ UNCHANGED <<sm, cm, mq, disk, store, locks, pc, now, config, hist>>

Stats ==
    /\ ret' = [op |-> "Stats",
               val |-> [ShortTermCount |-> ConversationBuffer_Len(shortTerm),
                        LongTermCount  |-> VectorMemory_Len(longTerm),
                        WorkingCount   |-> WorkingMemory_Len(workingSet)]]
    /\ UNCHANGED <<sm, cm, mq, disk, store, locks, pc, now, config, shortTerm, longTerm, workingSet, hist>>

\* The clock advances between calls.
Tick ==
    /\ now' = now + 1
    /\ ret' = NoCall
    /\ UNCHANGED <<sm, cm, mq, disk, store, locks, pc, config, shortTerm, longTerm, workingSet, hist>>

----------------------------------------------------------------------------
(* InMemoryStore (package vector): one map from identifier to VectorEntry, *)
(* behind its own RWMutex.                                                 *)

\* math.Sqrt on a fixed-point value: the largest r with r*r <= x*Scale.
RECURSIVE MathSqrtLoop(_, _)
MathSqrtLoop(n, r) ==
    LET next == (r + n \div r) \div 2
    IN  IF next >= r THEN r ELSE MathSqrtLoop(n, next)

MathSqrt(x) ==
    IF IsNaN(x) \/ x < 0 THEN NaN
    ELSE IF x = 0 THEN 0
    ELSE MathSqrtLoop(x * Scale, x * Scale)

\* vector.Similarity: cosine similarity, 0 for unequal lengths or a zero norm.
vector_Similarity(a, b) ==
    IF Len(a) # Len(b) THEN 0
    ELSE LET dotProduct == DotProduct(a, b, Len(a))
             normA == MathSqrt(DotProduct(a, a, Len(a)))
             normB == MathSqrt(DotProduct(b, b, Len(b)))
         IN  IF FEq(normA, 0) \/ FEq(normB, 0) THEN 0
             ELSE FDiv(dotProduct, FMul(normA, normB))

\* vector.Similarity over the vectors of the model, computed once.
StoreSimilarity == [a \in Vectors, b \in Vectors |-> vector_Similarity(a, b)]

\* The empty identifier "".
NoID == << >>

\* A MemoryMetadata with nil Tags and a nil Custom map.
MemoryMetadata(id, content, timestamp) ==
    [ID |-> id, Content |-> content, Timestamp |-> timestamp,
     Tags |-> << >>, Custom |-> EmptyMap]

\* fmt.Sprintf("vec_%d_%d", len(s.vectors), now())
GeneratedID(s) == <<"vec", Cardinality(DOMAIN s.vectors), now>>

\* Add: the store afterwards and the identifier returned (the error is nil).
InMemoryStore_Add(s, vector, metadata) ==
    LET id == IF metadata.ID = NoID THEN GeneratedID(s) ELSE metadata.ID
        entry == [Vector |-> vector, Metadata |-> [metadata EXCEPT !.ID = id]]
    IN  [store |-> [s EXCEPT !.vectors = MapPut(s.vectors, id, entry)], id |-> id]

DefaultSearchLimit == 10

\* less(i, j) of the sort.Slice call in Search.
SearchLess(s, query, a, b) ==
    FGt(StoreSimilarity[query, s.vectors[a].Vector],
        StoreSimilarity[query, s.vectors[b].Vector])

\* The orders sort.Slice may leave the scored entries in: sort.Slice is not
\* stable, so any order in which no entry precedes one that is less than it.
SortedOrders(s, query) ==
    {o \in Orders(DOMAIN s.vectors) :
        \A i, j \in 1..Len(o) : i < j => ~SearchLess(s, query, o[j], o[i])}

\* Search, with sort.Slice leaving the entries in the given order.
InMemoryStore_Search(s, query, limit, sorted) ==
    LET lim     == IF limit <= 0 THEN DefaultSearchLimit ELSE limit
        results == IF Len(sorted) > lim THEN SubSeq(sorted, 1, lim) ELSE sorted
    IN  [err |-> "nil",
         results |-> [i \in 1..Len(results) |->
                        [ID       |-> results[i],
                         Score    |-> StoreSimilarity[query, s.vectors[results[i]].Vector],
                         Content  |-> s.vectors[results[i]].Metadata.Content,
                         Metadata |-> s.vectors[results[i]].Metadata]]]

NotFound == "vector not found"

InMemoryStore_Get(s, id) ==
    IF id \notin DOMAIN s.vectors THEN [entry |-> NilEntry, err |-> NotFound]
    ELSE [entry |-> s.vectors[id], err |-> "nil"]

\* Delete that drops the vector of the entry and keeps its metadata.
InMemoryStore_Delete_VectorOnly(s, id) ==
    IF id \notin DOMAIN s.vectors THEN [store |-> s, err |-> NotFound]
    ELSE [store |-> [s EXCEPT !.vectors[id].Vector = << >>], err |-> "nil"]

InMemoryStore_Delete(s, id) ==
    IF id \notin DOMAIN s.vectors THEN [store |-> s, err |-> NotFound]
    ELSE [store |-> [s EXCEPT !.vectors = MapDelete(s.vectors, id)], err |-> "nil"]

DefaultListLimit == 100

\* The loop of List (lines 206-214) from position i of the map range.
RECURSIVE ListLoop(_, _, _, _, _, _)
ListLoop(entries, s, order, i, limit, offset) ==
    IF i > Len(order) THEN entries
    ELSE IF i - 1 >= offset + limit THEN entries
    ELSE ListLoop(IF i - 1 >= offset THEN Append(entries, s.vectors[order[i]])
                  ELSE entries,
                  s, order, i + 1, limit, offset)

InMemoryStore_List(s, limit, offset, order) ==
    ListLoop(<< >>, s, order, 1, IF limit <= 0 THEN DefaultListLimit ELSE limit, offset)

InMemoryStore_Count(s) == Cardinality(DOMAIN s.vectors)

\* Strings are values of their own.  InvalidUTF8 is a string holding a byte
\* sequence that is not valid UTF-8, and ReplacementChar the string with
\* U+FFFD in its place; every other string of the model is ASCII.
InvalidUTF8 == "<FF>"

ReplacementChar == "<U+FFFD>"

\* encoding/json writes and reads a string coerced to valid UTF-8: invalid
\* bytes become U+FFFD.
ToValidUTF8(str) == IF str = InvalidUTF8 THEN ReplacementChar ELSE str

\* A MemoryMetadata through encoding/json, in either direction.  Identifiers
\* of the model are ASCII and integers are written exactly; a nil Tags slice
\* is written as null and read as nil, and an empty Custom map is omitted
\* (omitempty) and read as nil: both keep no element.
JSONMetadata(m) ==
    [ID        |-> m.ID,
     Content   |-> ToValidUTF8(m.Content),
     Timestamp |-> m.Timestamp,
     Tags      |-> [i \in DOMAIN m.Tags |-> ToValidUTF8(m.Tags[i])],
     Custom    |-> [k \in DOMAIN m.Custom |-> ToValidUTF8(m.Custom[k])]]

\* A map of entries through encoding/json, in either direction: a finite
\* float32 is written in the shortest form that reads back as itself.
JSONEntries(vectors) ==
    [id \in DOMAIN vectors |->
        [Vector |-> vectors[id].Vector, Metadata |-> JSONMetadata(vectors[id].Metadata)]]

\* json.MarshalIndent returns an UnsupportedValueError for a NaN component.
MarshalFails(vectors) ==
    \E id \in DOMAIN vectors :
        \E i \in 1..Len(vectors[id].Vector) : IsNaN(vectors[id].Vector[i])

\* Save: the file afterwards and the error returned.  The file system does
\* not fail.
InMemoryStore_Save(s, d) ==
    IF MarshalFails(s.vectors) THEN [disk |-> d, err |-> "failed to marshal"]
    ELSE [disk |-> [kind |-> "json", value |-> JSONEntries(s.vectors)], err |-> "nil"]

\* Load that empties the store before it decodes the file.
InMemoryStore_Load_ClearFirst(s, d) ==
    IF d.kind = "missing" THEN [store |-> s, err |-> "nil"]
    ELSE IF d.kind = "garbage"
         THEN [store |-> NewInMemoryStore, err |-> "failed to unmarshal"]
    ELSE [store |-> [s EXCEPT !.vectors = JSONEntries(d.value)], err |-> "nil"]

\* Load: the store afterwards and the error returned.
InMemoryStore_Load(s, d) ==
    IF d.kind = "missing" THEN [store |-> s, err |-> "nil"]
    ELSE IF d.kind = "garbage" THEN [store |-> s, err |-> "failed to unmarshal"]
    ELSE [store |-> [s EXCEPT !.vectors = JSONEntries(d.value)], err |-> "nil"]

\* VectorMemory.Get: a nil entry and a nil error for an unknown identifier.
VectorMemory_Get(vm, id) ==
    IF id \notin DOMAIN vm.entries THEN [entry |-> NilEntry, err |-> "nil"]
    ELSE [entry |-> vm.entries[id], err |-> "nil"]

\* The methods of InMemoryStore; each holds s.mu for the whole call.
StoreAdd(vector, id, content, elapsed) ==
    LET done == InMemoryStore_Add(store, vector, MemoryMetadata(id, content, now))
    IN  /\ store' = done.store
        /\ now' = now + elapsed
        /\ ret' = [op |-> "Store.Add", supplied |-> id, id |-> done.id, err |-> "nil"]
        /\ UNCHANGED <<sm, cm, mq, disk, locks, pc, config, shortTerm, longTerm, workingSet, hist>>

StoreSearch(query, limit) ==
    \E sorted \in SortedOrders(store, query) :
        /\ ret' = [op |-> "Store.Search", query |-> query, limit |-> limit,
                   val |-> InMemoryStore_Search(store, query, limit, sorted)]
        /\ UNCHANGED <<sm, cm, mq, disk, store, locks, pc, now, config, shortTerm, longTerm, workingSet, hist>>

StoreGet(id) ==
    /\ ret' = [op |-> "Store.Get", id |-> id, val |-> InMemoryStore_Get(store, id)]
    /\ UNCHANGED <<sm, cm, mq, disk, store, locks, pc, now, config, shortTerm, longTerm, workingSet, hist>>

StoreDelete(id) ==
    LET done == InMemoryStore_Delete(store, id)
    IN  /\ store' = done.store
        /\ ret' = [op |-> "Store.Delete", id |-> id, err |-> done.err]
        /\ UNCHANGED <<sm, cm, mq, disk, locks, pc, now, config, shortTerm, longTerm, workingSet, hist>>

StoreList(limit, offset) ==
    \E order \in Orders(DOMAIN store.vectors) :
        /\ ret' = [op |-> "Store.List", limit |-> limit, offset |-> offset,
                   val |-> InMemoryStore_List(store, limit, offset, order)]
        /\ UNCHANGED <<sm, cm, mq, disk, store, locks, pc, now, config, shortTerm, longTerm, workingSet, hist>>

StoreCount ==
    /\ ret' = [op |-> "Store.Count", val |-> InMemoryStore_Count(store)]
    /\ UNCHANGED <<sm, cm, mq, disk, store, locks, pc, now, config, shortTerm, longTerm, workingSet, hist>>

\* Add with caller-chosen tags and custom map.
StoreAddTagged(vector, id, content, tags, custom) ==
    LET metadata == [MemoryMetadata(id, content, now) EXCEPT !.Tags = tags, !.Custom = custom]
        done == InMemoryStore_Add(store, vector, metadata)
    IN  /\ store' = done.store
        /\ ret' = [op |-> "Store.Add", supplied |-> id, id |-> done.id, err |-> "nil"]
        /\ UNCHANGED <<sm, cm, mq, disk, locks, pc, now, config, shortTerm, longTerm, workingSet, hist>>

StoreSave ==
    LET done == InMemoryStore_Save(store, disk)
    IN  /\ disk' = done.disk
        /\ ret' = [op |-> "Store.Save", err |-> done.err]
        /\ UNCHANGED <<sm, cm, mq, store, locks, pc, now, config, shortTerm, longTerm, workingSet, hist>>

StoreLoad ==
    LET done == InMemoryStore_Load(store, disk)
    IN  /\ store' = done.store
        /\ ret' = [op |-> "Store.Load", err |-> done.err]
        /\ UNCHANGED <<sm, cm, mq, disk, locks, pc, now, config, shortTerm, longTerm, workingSet, hist>>

\* NewInMemoryStore: the process goes on with a fresh store.
StoreNew ==
    /\ store' = NewInMemoryStore
    /\ ret' = [op |-> "Store.New"]
    /\ UNCHANGED <<sm, cm, mq, disk, locks, pc, now, config, shortTerm, longTerm, workingSet, hist>>

\* Outside the store, the file is removed or overwritten with other bytes.
FileChange(file) ==
    /\ disk' = file
    /\ ret' = NoCall
    /\ UNCHANGED <<sm, cm, mq, store, locks, pc, now, config, shortTerm, longTerm, workingSet, hist>>

\* WorkingMemory.GetAll on the working tier.
WorkingGetAll ==
    /\ ret' = [op |-> "WorkingMemory.GetAll", val |-> WorkingMemory_GetAll(workingSet)]
    /\ UNCHANGED <<sm, cm, mq, disk, store, locks, pc, now, config, shortTerm, longTerm, workingSet, hist>>

\* A call of memory.cosineSimilarity.
CosineCall(a, b) ==
    /\ ret' = [op |-> "cosineSimilarity", a |-> a, b |-> b, val |-> cosineSimilarity(a, b)]
    /\ UNCHANGED <<sm, cm, mq, disk, store, locks, pc, now, config, shortTerm, longTerm, workingSet, hist>>

\* A call of vector.Similarity.
SimilarityCall(a, b) ==
    /\ ret' = [op |-> "Similarity", a |-> a, b |-> b, val |-> vector_Similarity(a, b)]
    /\ UNCHANGED <<sm, cm, mq, disk, store, locks, pc, now, config, shortTerm, longTerm, workingSet, hist>>

\* VectorMemory.Get on the long-term tier.
LongTermGet(id) ==
    /\ ret' = [op |-> "VectorMemory.Get", id |-> id, val |-> VectorMemory_Get(longTerm, id)]
    /\ UNCHANGED <<sm, cm, mq, disk, store, locks, pc, now, config, shortTerm, longTerm, workingSet, hist>>

----------------------------------------------------------------------------
(* Locking.  Consolidate and AddWithEmbedding step by step: the points at  *)
(* which each takes and releases its mutex, and the Embed call in between. *)
(* A reader holds its mutex for one atomic step.                           *)

\* mu.Lock() returns at once.
CanLock(mu) == mu.writer = "none" /\ mu.readers = 0 /\ ~mu.pending

\* mu.RLock() returns at once.
CanRLock(mu) == mu.writer = "none" /\ ~mu.pending

\* Consolidate, lines 200-203: m.mu.Lock() and GetRecent(20).
ConsolidateLock(embedder) ==
    /\ pc.consolidate.at = "idle"
    /\ CanLock(locks.m)
    /\ locks' = [locks EXCEPT !.m.writer = "Consolidate"]
    /\ pc' = [pc EXCEPT !.consolidate =
                 [at |-> "loop", i |-> 1, embedder |-> embedder,
                  recent |-> ConversationBuffer_GetRecent(shortTerm, ConsolidateCount)]]
    /\ UNCHANGED <<sm, cm, mq, disk, store, now, config, shortTerm, longTerm, workingSet, ret, hist>>

\* The move of lines 219-222.
Promote(entry, embedding) ==
    /\ longTerm' = VectorMemory_Add(longTerm, entry, embedding)
    /\ shortTerm' = ConversationBuffer_Remove(shortTerm, entry.ID)

\* One iteration of the loop, up to the Embed call (lines 204-211) or, with
\* a nil embedder, to its end.
ConsolidateIter ==
    /\ pc.consolidate.at = "loop"
    /\ pc.consolidate.i <= Len(pc.consolidate.recent)
    /\ LET entry == pc.consolidate.recent[pc.consolidate.i]
       IN  IF Since(entry.Timestamp) > Hour
           THEN IF pc.consolidate.embedder.nil
                THEN /\ Promote(entry, << >>)
                     /\ pc' = [pc EXCEPT !.consolidate.i = @ + 1]
                ELSE /\ pc' = [pc EXCEPT !.consolidate.at = "embed"]
                     /\ UNCHANGED <<shortTerm, longTerm>>
           ELSE /\ pc' = [pc EXCEPT !.consolidate.i = @ + 1]
                /\ UNCHANGED <<shortTerm, longTerm>>
    /\ UNCHANGED <<sm, cm, mq, disk, store, locks, now, config, workingSet, ret, hist>>

\* embedder.Embed returns (lines 211-222).
ConsolidateEmbedReturn ==
    /\ pc.consolidate.at = "embed"
    /\ LET entry == pc.consolidate.recent[pc.consolidate.i]
           r     == pc.consolidate.embedder.Embed[entry.Content]
       IN  IF r.err THEN UNCHANGED <<shortTerm, longTerm>>
           ELSE Promote(entry, r.emb)
    /\ pc' = [pc EXCEPT !.consolidate.at = "loop", !.consolidate.i = @ + 1]
    /\ UNCHANGED <<sm, cm, mq, disk, store, locks, now, config, workingSet, ret, hist>>

\* The loop is over: return nil and the deferred m.mu.Unlock().
ConsolidateUnlock ==
    /\ pc.consolidate.at = "loop"
    /\ pc.consolidate.i > Len(pc.consolidate.recent)
    /\ locks' = [locks EXCEPT !.m.writer = "none"]
    /\ pc' = [pc EXCEPT !.consolidate = [at |-> "idle"]]
    /\ ret' = [op |-> "Consolidate", embedder |-> pc.consolidate.embedder, val |-> "nil"]
    /\ UNCHANGED <<sm, cm, mq, disk, store, now, config, shortTerm, longTerm, workingSet, hist>>

\* AddWithEmbedding, lines 87-89: the Embed call is issued, or skipped with
\* no embedder (lines 96-101 then read the clock).
AddWithEmbeddingCall(content, embedder) ==
    /\ pc.add.at = "idle"
    /\ pc' = [pc EXCEPT !.add =
                 IF embedder.nil
                 THEN [at |-> "add", vector |-> << >>,
                       metadata |-> MemoryMetadata(NoID, content, now)]
                 ELSE [at |-> "embed", content |-> content, embedder |-> embedder]]
    /\ UNCHANGED <<sm, cm, mq, disk, store, locks, now, config, shortTerm, longTerm, workingSet, ret, hist>>

\* s.embedder.Embed returns (lines 89-101).
AddWithEmbeddingEmbedReturn ==
    /\ pc.add.at = "embed"
    /\ LET r == pc.add.embedder.Embed[pc.add.content]
       IN  IF r.err
           THEN /\ pc' = [pc EXCEPT !.add = [at |-> "idle"]]
                /\ ret' = [op |-> "Store.AddWithEmbedding", id |-> NoID,
                           err |-> "failed to generate embedding"]
           ELSE /\ pc' = [pc EXCEPT !.add =
                             [at |-> "add", vector |-> r.emb,
                              metadata |-> MemoryMetadata(NoID, pc.add.content, now)]]
                /\ UNCHANGED ret
    /\ UNCHANGED <<sm, cm, mq, disk, store, locks, now, config, shortTerm, longTerm, workingSet, hist>>

\* s.Add, line 67: s.mu.Lock().
AddWithEmbeddingLock ==
    /\ pc.add.at = "add"
    /\ CanLock(locks.s)
    /\ locks' = [locks EXCEPT !.s.writer = "Add"]
    /\ pc' = [pc EXCEPT !.add.at = "locked"]
    /\ UNCHANGED <<sm, cm, mq, disk, store, now, config, shortTerm, longTerm, workingSet, ret, hist>>

\* s.Add, lines 71-81, and the deferred s.mu.Unlock().
AddWithEmbeddingUnlock ==
    /\ pc.add.at = "locked"
    /\ LET done == InMemoryStore_Add(store, pc.add.vector, pc.add.metadata)
       IN  /\ store' = done.store
           /\ ret' = [op |-> "Store.AddWithEmbedding", id |-> done.id, err |-> "nil"]
    /\ locks' = [locks EXCEPT !.s.writer = "none"]
    /\ pc' = [pc EXCEPT !.add = [at |-> "idle"]]
    /\ UNCHANGED <<sm, cm, mq, disk, now, config, shortTerm, longTerm, workingSet, hist>>

\* VectorMemory.Add step by step (lines 39-47), called with an entry built
\* as AddLongTerm builds it: vm.mu.Lock().
VectorMemoryAddLock(content, embedding) ==
    /\ pc.vmadd.at = "idle"
    /\ CanLock(locks.vm)
    /\ locks' = [locks EXCEPT !.vm.writer = "Add"]
    /\ pc' = [pc EXCEPT !.vmadd =
                 [at |-> "locked", embedding |-> embedding,
                  entry |-> MemoryEntry(NewID("lt"), content, now, EmptyMap)]]
    /\ UNCHANGED <<sm, cm, mq, disk, store, now, config, shortTerm, longTerm, workingSet, ret, hist>>

\* Line 43.
VectorMemoryAddEntry ==
    /\ pc.vmadd.at = "locked"
    /\ longTerm' = VectorMemory_PutEntry(longTerm, pc.vmadd.entry)
    /\ pc' = [pc EXCEPT !.vmadd.at = "entry"]
    /\ UNCHANGED <<sm, cm, mq, disk, store, locks, now, config, shortTerm, workingSet, ret, hist>>

\* Line 44.
VectorMemoryAddVector ==
    /\ pc.vmadd.at = "entry"
    /\ longTerm' = VectorMemory_PutVector(longTerm, pc.vmadd.entry.ID, pc.vmadd.embedding)
    /\ pc' = [pc EXCEPT !.vmadd.at = "vector"]
    /\ UNCHANGED <<sm, cm, mq, disk, store, locks, now, config, shortTerm, workingSet, ret, hist>>

\* Line 46 and the deferred vm.mu.Unlock().
VectorMemoryAddUnlock ==
    /\ pc.vmadd.at = "vector"
    /\ locks' = [locks EXCEPT !.vm.writer = "none"]
    /\ pc' = [pc EXCEPT !.vmadd = [at |-> "idle"]]
    /\ ret' = [op |-> "VectorMemory.Add", entry |-> pc.vmadd.entry, val |-> "nil"]
    /\ UNCHANGED <<sm, cm, mq, disk, store, now, config, shortTerm, longTerm, workingSet, hist>>

----------------------------------------------------------------------------
(* SpecBuffer: one ConversationBuffer, constructed with a capacity from    *)
(* 0..MaxBufSize and then driven directly.  The remaining MemoryStore      *)
(* fields stay as constructed.                                             *)

MaxBufSize == 2      \* configured capacities 0..MaxBufSize (0 is non-positive)
MaxBufId   == 2      \* identifiers st_0..st_MaxBufId
MaxAdds    == 4      \* Adds tracked since construction or the last Clear
MaxCount   == 3      \* GetRecent counts 0..MaxCount

Contents == {"a", "b"}

BufIds == {<<"st", i>> : i \in 0..MaxBufId}

NoHist == [adds |-> << >>, clean |-> TRUE, n |-> 0]

BufInit ==
    /\ now = 0
    /\ \E n \in 0..MaxBufSize :
          /\ config = [ShortTermMax |-> n, WorkingMax |-> 0, SimilarityCut |-> 0]
          /\ shortTerm = NewConversationBuffer(n)
    /\ longTerm = NewVectorMemory
    /\ workingSet = NewWorkingMemory(0)
    /\ ret = [op |-> "New"]
    /\ hist = NoHist
    /\ store = NewInMemoryStore
    /\ locks = NoLocks
    /\ pc = Idle
    /\ disk = NoFile
    /\ sm = NewSecurityManager
    /\ cm = NewChatManager(0)
    /\ mq = NoQueue

BufAdd ==
    \E id \in BufIds :
        LET entry == MemoryEntry(id, "a", 0, EmptyMap)
        IN  /\ shortTerm' = ConversationBuffer_Add(shortTerm, entry)
            /\ ret' = [op |-> "Add", entry |-> entry]
            /\ hist' = [hist EXCEPT !.n = @ + 1,
                                    !.adds = IF hist.clean THEN Append(@, entry) ELSE @]
            /\ UNCHANGED <<sm, cm, mq, disk, store, locks, pc, now, config, longTerm, workingSet>>

BufRemove ==
    \E id \in BufIds :
        /\ shortTerm' = ConversationBuffer_Remove(shortTerm, id)
        /\ ret' = [op |-> "Remove", id |-> id]
        /\ hist' = [hist EXCEPT !.clean = FALSE, !.adds = << >>]
        /\ UNCHANGED <<sm, cm, mq, disk, store, locks, pc, now, config, longTerm, workingSet>>

BufClear ==
    /\ shortTerm' = ConversationBuffer_Clear(shortTerm)
    /\ ret' = [op |-> "Clear"]
    /\ hist' = NoHist
    /\ UNCHANGED <<sm, cm, mq, disk, store, locks, pc, now, config, longTerm, workingSet>>

BufGetRecent ==
    \E count \in 0..MaxCount :
        /\ ret' = [op |-> "GetRecent", count |-> count,
                   val |-> ConversationBuffer_GetRecent(shortTerm, count)]
        /\ UNCHANGED <<sm, cm, mq, disk, store, locks, pc, now, config, shortTerm, longTerm, workingSet, hist>>

BufLen ==
    /\ ret' = [op |-> "Len", val |-> ConversationBuffer_Len(shortTerm)]
    /\ UNCHANGED <<sm, cm, mq, disk, store, locks, pc, now, config, shortTerm, longTerm, workingSet, hist>>

BufNext ==
    \/ (hist.n < MaxAdds /\ BufAdd)
    \/ BufRemove
    \/ BufClear
    \/ BufGetRecent
    \/ BufLen

SpecBuffer == BufInit /\ [][BufNext]_vars

----------------------------------------------------------------------------
(* Claims about the ConversationBuffer, checked under SpecBuffer.          *)

\* The capacity N a configured value stands for.
Capacity == IF config.ShortTermMax <= 0 THEN 50 ELSE config.ShortTermMax

\* The last k elements of s, newest first.
LastRev(s, k) == [i \in 1..k |-> s[Len(s) + 1 - i]]

\* The last k elements of s, oldest first.
LastN(s, k) == [i \in 1..k |-> s[Len(s) - k + i]]

Distinct(s) == \A i, j \in 1..Len(s) : i # j => s[i].ID # s[j].ID

\* C1: in every reachable state Len() <= N, where N is the configured
\* capacity (50 for a non-positive one); and an Add on a full buffer removes
\* exactly the head entry and appends the new entry at the tail.
C1_BoundedEviction ==
    /\ [](ConversationBuffer_Len(shortTerm) <= Capacity)
    /\ [][(ret'.op = "Add" /\ ConversationBuffer_Len(shortTerm) = Capacity)
            => BufferValues(shortTerm')
                 = Append(Tail(BufferValues(shortTerm)), ret'.entry)]_vars

\* An Add has just evicted the head of a full buffer.
C1_Witness ==
    /\ ret.op = "Add"
    /\ hist.clean
    /\ hist.n > Capacity
    /\ ConversationBuffer_Len(shortTerm) = Capacity

\* C2: after M > N Adds with distinct identifiers into an empty buffer, with
\* no Remove or Clear in between, the buffer holds exactly the last N entries
\* added, oldest first.
C2_LastNRemain ==
    (hist.clean /\ hist.n > Capacity /\ Distinct(hist.adds))
        => BufferValues(shortTerm) = LastN(hist.adds, Capacity)

\* Three distinct identifiers were added to a buffer of capacity two.
C2_Witness ==
    /\ hist.clean
    /\ Capacity = 2
    /\ hist.n = 3
    /\ Distinct(hist.adds)
    /\ ret.op = "Add"

\* C3 as stated: after N+k Adds into an empty buffer of capacity N the size
\* is min(N+k, N) and GetRecent(N) returns the k most recent inserted
\* entries, newest first.
C3_Original ==
    (ret.op = "GetRecent" /\ ret.count = Capacity /\ hist.clean /\ hist.n >= Capacity)
        => /\ ConversationBuffer_Len(shortTerm) = Min(hist.n, Capacity)
           /\ ret.val = LastRev(hist.adds, hist.n - Capacity)

\* C3 as amended: after N+k Adds into an empty buffer of capacity N the size
\* is N and GetRecent(N) returns the N most recent inserted entries, newest
\* first.
C3_RecentN ==
    (ret.op = "GetRecent" /\ ret.count = Capacity /\ hist.clean /\ hist.n >= Capacity)
        => /\ ConversationBuffer_Len(shortTerm) = Capacity
           /\ ret.val = LastRev(hist.adds, Capacity)

\* GetRecent(N) was called after N+2 Adds into a buffer of capacity N = 2.
C3_Witness ==
    /\ ret.op = "GetRecent"
    /\ ret.count = Capacity
    /\ hist.clean
    /\ Capacity = 2
    /\ hist.n = Capacity + 2

----------------------------------------------------------------------------
(* Inputs of the MemoryStore specifications.                               *)

\* Cutoffs 0 and 0.7 (the default).
Cuts == {0, DefaultConfig.SimilarityCut}

StoredEmbeddings == {E1, E2}

QueryEmbeddings == {<< >>, E1}

Embedders ==
    {NilEmbedder} \cup {Embedder(f) : f \in [Contents -> {EmbedError, EmbedOk(E1)}]}

StoreInit(shortTermMax, cuts) ==
    /\ now = 0
    /\ \E cut \in cuts :
          LET m == NewMemoryStore([ShortTermMax |-> shortTermMax, WorkingMax |-> 10,
                                   SimilarityCut |-> cut])
          IN  /\ config = m.config
              /\ shortTerm = m.shortTerm
              /\ longTerm = m.longTerm
              /\ workingSet = m.workingSet
    /\ ret = NoCall
    /\ hist = NoHist
    /\ store = NewInMemoryStore
    /\ locks = NoLocks
    /\ pc = Idle
    /\ disk = NoFile
    /\ sm = NewSecurityManager
    /\ cm = NewChatManager(0)
    /\ mq = NoQueue

----------------------------------------------------------------------------
(* Spec: a MemoryStore with a small short-term capacity under a free       *)
(* clock: any number of calls may read the same clock value.               *)

SmallShortTermMax == 2   \* configured short-term capacity
MaxLong    == 1          \* AddLongTerm while fewer long-term entries
MaxWorking == 1          \* AddWorking while fewer working items
MaxTime    == 1          \* the clock runs 0..MaxTime

Init == StoreInit(SmallShortTermMax, {DefaultConfig.SimilarityCut})

Next ==
    \/ \E c \in Contents : AddShortTerm(c, 0)
    \/ (VectorMemory_Len(longTerm) < MaxLong
          /\ \E e \in StoredEmbeddings : AddLongTerm("m", e, 0))
    \/ (WorkingMemory_Len(workingSet) < MaxWorking /\ AddWorking("w", 1, 0))
    \/ \E e \in {E1}, l \in {-1, 1} : Search(e, l)
    \/ \E e \in QueryEmbeddings, t \in {0, 3} : GetContext(e, t)
    \/ \E em \in Embedders : Consolidate(em)
    \/ Clear
    \/ Stats
    \/ (now < MaxTime /\ Tick)

Spec == Init /\ [][Next]_vars

----------------------------------------------------------------------------
(* SpecContext: GetContext on a store whose tiers are filled in turn,      *)
(* working memory first, then long-term memory, then the short-term        *)
(* buffer, every Add reading a later clock value than the one before.      *)

MaxWorkingC == 2     \* AddWorking while fewer working items
MaxLongC    == 2     \* AddLongTerm while fewer long-term entries
MaxShortC   == 2     \* AddShortTerm while fewer short-term entries

ContextQueries == {<< >>, E1, E2, ZeroVector}

\* Budgets: a negative one, none, one that binds in loops 1 and 2, one that
\* binds in loop 2 only, and the largest int (maxTokens*2 overflows).
ContextBudgets == {-1, 0, 3, 9, MaxInt}

ContextInit == StoreInit(MaxShortC, Cuts)

ContextNext ==
    \/ (/\ WorkingMemory_Len(workingSet) < MaxWorkingC
        /\ VectorMemory_Len(longTerm) = 0
        /\ ConversationBuffer_Len(shortTerm) = 0
        /\ AddWorking("w", 1, 1))
    \/ (/\ VectorMemory_Len(longTerm) < MaxLongC
        /\ ConversationBuffer_Len(shortTerm) = 0
        /\ \E e \in StoredEmbeddings : AddLongTerm("m", e, 1))
    \/ (ConversationBuffer_Len(shortTerm) < MaxShortC /\ AddShortTerm("a", 1))
    \/ \E e \in ContextQueries, t \in ContextBudgets : GetContext(e, t)

SpecContext == ContextInit /\ [][ContextNext]_vars

----------------------------------------------------------------------------
(* SpecBudget: GetContext on a store with more long-term entries than the  *)
(* search returns.  Working memory is filled first, then long-term memory, *)
(* every Add reading a later clock value than the one before; the first    *)
(* long-term entry may point away from the others.                         *)

MaxWorkingB == 2                  \* AddWorking while fewer working items
MaxLongB    == SearchLimit + 1    \* AddLongTerm while fewer long-term entries

BudgetQueries == {E1, E2}

\* Budgets: one that binds in loops 1 and 2, one that binds in loop 2 only,
\* and the largest int.
BudgetBudgets == {3, 9, MaxInt}

BudgetInit == StoreInit(DefaultConfig.ShortTermMax, Cuts)

BudgetNext ==
    \/ (/\ WorkingMemory_Len(workingSet) < MaxWorkingB
        /\ VectorMemory_Len(longTerm) = 0
        /\ AddWorking("w", 1, 1))
    \/ (VectorMemory_Len(longTerm) = 0 /\ AddLongTerm("n", E2, 1))
    \/ (VectorMemory_Len(longTerm) < MaxLongB /\ AddLongTerm("m", E1, 1))
    \/ \E e \in BudgetQueries, t \in BudgetBudgets : GetContext(e, t)

SpecBudget == BudgetInit /\ [][BudgetNext]_vars

----------------------------------------------------------------------------
(* Claims about GetContext, checked under SpecContext and SpecBudget.      *)

\* The number of fragments of parts that carry the tag.
CountTag(parts, tag) == Cardinality({i \in 1..Len(parts) : parts[i].tag = tag})

Rank(tag) == CASE tag = "WORKING" -> 1 [] tag = "MEMORY" -> 2 [] tag = "RECENT" -> 3

\* The similarity of the long-term entry id to the query embedding.
ScoreOf(embedding, id) == Similarity[embedding, longTerm.vectors[id]]

\* C4: in the output of GetContext every [WORKING] fragment precedes every
\* [MEMORY] fragment and every [MEMORY] fragment precedes every [RECENT]
\* fragment.
C4_FragmentOrder ==
    ret.op = "GetContext"
        => \A i, j \in 1..Len(ret.val) :
              i < j => Rank(ret.val[i].tag) <= Rank(ret.val[j].tag)

\* GetContext returned fragments of all three kinds.
C4_Witness ==
    /\ ret.op = "GetContext"
    /\ CountTag(ret.val, "WORKING") > 0
    /\ CountTag(ret.val, "MEMORY") > 0
    /\ CountTag(ret.val, "RECENT") > 0

\* C5: for every maxTokens >= 0 the output of GetContext has at most
\* floor(maxTokens/3) [WORKING] fragments, at most 5 [MEMORY] fragments and
\* at most floor(2*maxTokens/3) [WORKING] and [MEMORY] fragments together.
C5_PhaseBudgets ==
    (ret.op = "GetContext" /\ ret.maxTokens >= 0)
        => LET w == CountTag(ret.val, "WORKING")
               m == CountTag(ret.val, "MEMORY")
           IN  /\ w <= ret.maxTokens \div 3
               /\ m <= 5
               /\ w + m <= (2 * ret.maxTokens) \div 3

\* Both budgets bound the output: more working items than a third of the
\* budget, and more matches above the cutoff than the second loop appended.
C5_Witness ==
    /\ ret.op = "GetContext"
    /\ ret.maxTokens = 3
    /\ WorkingMemory_Len(workingSet) > CountTag(ret.val, "WORKING")
    /\ CountTag(ret.val, "WORKING") = 1
    /\ CountTag(ret.val, "MEMORY") = 1
    /\ Cardinality({id \in DOMAIN longTerm.vectors :
                       FGe(ScoreOf(ret.embedding, id), config.SimilarityCut)}) > SearchLimit

\* C6 as stated: for every maxTokens >= 0 the total number of fragments in
\* the output of GetContext does not exceed maxTokens.
C6_Original ==
    (ret.op = "GetContext" /\ ret.maxTokens >= 0) => Len(ret.val) <= ret.maxTokens

\* C6 as amended: for every maxTokens >= 0 the total number of fragments
\* does not exceed floor(2*maxTokens/3) plus min(10, short-term size).
C6_BoundedByPhases ==
    (ret.op = "GetContext" /\ ret.maxTokens >= 0)
        => Len(ret.val) <= (2 * ret.maxTokens) \div 3
                             + Min(RecentCount, ConversationBuffer_Len(shortTerm))

\* GetContext returned more fragments than maxTokens, fragments of the
\* first two loops among them.
C6_Witness ==
    /\ ret.op = "GetContext"
    /\ ret.maxTokens >= 0
    /\ Len(ret.val) > ret.maxTokens
    /\ CountTag(ret.val, "WORKING") + CountTag(ret.val, "MEMORY") > 0

\* C7: every [MEMORY] fragment in the output of GetContext carries the
\* content and the score of a long-term entry whose similarity to the query
\* is at least config.SimilarityCut and which fewer than 5 entries outscore.
C7_MemoryAboveCut ==
    ret.op = "GetContext"
        => \A i \in 1..Len(ret.val) :
              ret.val[i].tag = "MEMORY"
                => \E id \in DOMAIN longTerm.entries :
                      /\ longTerm.entries[id].Content = ret.val[i].Content
                      /\ ScoreOf(ret.embedding, id) = ret.val[i].Score
                      /\ FGe(ScoreOf(ret.embedding, id), config.SimilarityCut)
                      /\ Cardinality({o \in DOMAIN longTerm.entries :
                                         FGt(ScoreOf(ret.embedding, o),
                                             ScoreOf(ret.embedding, id))}) < SearchLimit

\* GetContext included a match while long-term memory held more entries
\* than the search returns, one of them scoring below the cutoff.
C7_Witness ==
    /\ ret.op = "GetContext"
    /\ CountTag(ret.val, "MEMORY") > 0
    /\ VectorMemory_Len(longTerm) > SearchLimit
    /\ \E id \in DOMAIN longTerm.entries :
          ~FGe(ScoreOf(ret.embedding, id), config.SimilarityCut)

----------------------------------------------------------------------------
(* SpecRecency: GetContext on a store whose short-term buffer grows past   *)
(* the number of recent entries GetContext asks for, and then evicts.      *)
(* Working and long-term memory are filled first; every Add reads a later  *)
(* clock value than the one before, and every short-term entry has a       *)
(* content of its own, the clock value it was added at.                    *)

MaxWorkingR == 1                  \* AddWorking while fewer working items
MaxLongR    == 1                  \* AddLongTerm while fewer long-term entries
RecencyMax  == RecentCount + 2    \* configured short-term capacity
MaxTimeR    == RecencyMax + MaxWorkingR + MaxLongR + 1   \* Adds while now is below

RecencyInit == StoreInit(RecencyMax, {DefaultConfig.SimilarityCut})

RecencyNext ==
    \/ (/\ WorkingMemory_Len(workingSet) < MaxWorkingR
        /\ ConversationBuffer_Len(shortTerm) = 0
        /\ AddWorking("w", 1, 1))
    \/ (/\ VectorMemory_Len(longTerm) < MaxLongR
        /\ ConversationBuffer_Len(shortTerm) = 0
        /\ AddLongTerm("m", E1, 1))
    \/ (now < MaxTimeR /\ AddShortTerm(ToString(now), 1))
    \/ \E t \in {-1, 0, 3} : GetContext(E1, t)

SpecRecency == RecencyInit /\ [][RecencyNext]_vars

IsRecent(part) == part.tag = "RECENT"

\* C8: whatever maxTokens is, the [RECENT] fragments in the output of
\* GetContext are those of the min(10, short-term size) most recent
\* short-term entries, one each, newest first.
C8_RecentUnconditional ==
    ret.op = "GetContext"
        => LET values == BufferValues(shortTerm)
               k      == Min(10, Len(values))
           IN  SelectSeq(ret.val, IsRecent)
                 = [i \in 1..k |-> [tag |-> "RECENT",
                                    Content |-> values[Len(values) + 1 - i].Content]]

\* GetContext spent its budget on the first two loops and then appended
\* ten [RECENT] fragments from a buffer that holds more.
C8_Witness ==
    /\ ret.op = "GetContext"
    /\ ret.maxTokens = 3
    /\ CountTag(ret.val, "WORKING") = 1
    /\ CountTag(ret.val, "MEMORY") = 1
    /\ ConversationBuffer_Len(shortTerm) > RecentCount
    /\ CountTag(ret.val, "RECENT") = RecentCount

----------------------------------------------------------------------------
(* SpecConsolidate: Consolidate on a store whose short-term buffer holds   *)
(* more entries than Consolidate examines.  Every AddShortTerm reads a     *)
(* later clock value than the one before; Consolidate runs while long-term *)
(* memory is empty.                                                        *)

ConsolidateMax == ConsolidateCount + 1    \* configured short-term capacity
MaxTimeS       == ConsolidateMax + 1      \* AddShortTerm while now is below

ConsolidateInit == StoreInit(ConsolidateMax, {DefaultConfig.SimilarityCut})

ConsolidateNext ==
    \/ (now < MaxTimeS /\ AddShortTerm("a", 1))
    \/ (VectorMemory_Len(longTerm) = 0 /\ \E em \in Embedders : Consolidate(em))
    \/ Stats

SpecConsolidate == ConsolidateInit /\ [][ConsolidateNext]_vars

\* The embedder is nil or answers every content with a vector.
NeverFails(embedder) == embedder.nil \/ \A c \in Contents : ~embedder.Embed[c].err

\* C9: when Consolidate returns, with a nil embedder or every Embed call
\* succeeding, no entry older than one hour remains in the ConversationBuffer.
C9_NoOldEntryRemains ==
    (ret.op = "Consolidate" /\ NeverFails(ret.embedder))
        => \A i \in 1..Len(BufferValues(shortTerm)) :
              Since(BufferValues(shortTerm)[i].Timestamp) <= Hour

----------------------------------------------------------------------------
(* Claims about Consolidate, checked under Spec.                           *)

\* C10: in every state between public calls no identifier is held by both
\* the ConversationBuffer and VectorMemory.
C10_MoveNotCopy ==
    \A i \in 1..Len(BufferValues(shortTerm)) :
        BufferValues(shortTerm)[i].ID \notin DOMAIN longTerm.entries

\* C11: an entry stored without a vector (promoted by Consolidate with a nil
\* embedder) is never among the results of Search.
C11_NoVectorUnsearchable ==
    (ret.op = "Search" /\ ~ret.val.panic)
        => \A i \in 1..Len(ret.val.results) :
              longTerm.vectors[ret.val.results[i].Entry.ID] # << >>

\* The entries Consolidate examines and finds older than one hour.
Eligible ==
    LET recent == ConversationBuffer_GetRecent(shortTerm, ConsolidateCount)
    IN  {recent[i] : i \in {j \in 1..Len(recent) : Since(recent[j].Timestamp) > Hour}}

\* C12: in a Consolidate pass every eligible entry whose Embed call fails
\* stays in the ConversationBuffer and is not added to VectorMemory, and
\* every other eligible entry is added to VectorMemory.
C12_FailedEmbedSkipped ==
    [][(ret'.op = "Consolidate" /\ ~ret'.embedder.nil)
         => \A e \in Eligible :
               IF ret'.embedder.Embed[e.Content].err
               THEN /\ \E i \in 1..Len(BufferValues(shortTerm')) :
                          BufferValues(shortTerm')[i] = e
                    /\ (/\ e.ID \in DOMAIN longTerm'.entries
                        /\ longTerm'.entries[e.ID] = e)
                          => (/\ e.ID \in DOMAIN longTerm.entries
                              /\ longTerm.entries[e.ID] = e)
               ELSE e.ID \in DOMAIN longTerm'.entries]_vars

----------------------------------------------------------------------------
(* SpecLock: a goroutine in Consolidate and a goroutine in                 *)
(* AddWithEmbedding, each next to a reader of the same mutex (Stats,       *)
(* Count), under a free clock.                                             *)

MaxTimeL  == 1    \* the clock runs 0..MaxTimeL
MaxStoreL == 1    \* AddWithEmbedding while the store holds fewer entries

LockInit == StoreInit(SmallShortTermMax, {DefaultConfig.SimilarityCut})

LockNext ==
    \/ (CanLock(locks.m) /\ AddShortTerm("a", 0))
    \/ (now < MaxTimeL /\ Tick)
    \/ \E em \in Embedders : ConsolidateLock(em)
    \/ ConsolidateIter
    \/ ConsolidateEmbedReturn
    \/ ConsolidateUnlock
    \/ (CanRLock(locks.m) /\ Stats)
    \/ (InMemoryStore_Count(store) < MaxStoreL
          /\ \E em \in Embedders : AddWithEmbeddingCall("a", em))
    \/ AddWithEmbeddingEmbedReturn
    \/ AddWithEmbeddingLock
    \/ AddWithEmbeddingUnlock
    \/ (CanRLock(locks.s) /\ StoreCount)

SpecLock == LockInit /\ [][LockNext]_vars

\* C13: while an Embed call issued from Consolidate or AddWithEmbedding is in
\* flight, a reader of the same mutex can acquire it.
C13_EmbedOutsideLock ==
    /\ pc.consolidate.at = "embed" => CanRLock(locks.m)
    /\ pc.add.at = "embed" => CanRLock(locks.s)

----------------------------------------------------------------------------
(* SpecStore: an InMemoryStore under Add, Search, Get, Delete, List and    *)
(* Count, all called within one second of the clock, so that               *)
(* len(s.vectors) alone tells two generated identifiers apart.             *)

MaxStore == 2    \* InMemoryStore.Add while the store holds fewer entries

StoredVectors == {E1, E2, ZeroVector}
SearchQueries == {<< >>, E1}
SearchLimits  == {-1, 0, 1, MaxStore}
ListLimits    == {0, 1}
ListOffsets   == {0, 1}

\* An identifier the caller supplies, and never one that is generated.
SuppliedID == <<"x">>

\* The identifiers Get and Delete are called with: those in the store and
\* one more.
StoreIDs == DOMAIN store.vectors \cup {SuppliedID}

StoreSpecInit == StoreInit(SmallShortTermMax, {DefaultConfig.SimilarityCut})

StoreSpecNext ==
    \/ (InMemoryStore_Count(store) < MaxStore
          /\ \E v \in StoredVectors, id \in {NoID, SuppliedID} : StoreAdd(v, id, "a", 0))
    \/ \E q \in SearchQueries, k \in SearchLimits : StoreSearch(q, k)
    \/ \E id \in StoreIDs : StoreGet(id)
    \/ \E id \in StoreIDs : StoreDelete(id)
    \/ \E l \in ListLimits, o \in ListOffsets : StoreList(l, o)
    \/ StoreCount

SpecStore == StoreSpecInit /\ [][StoreSpecNext]_vars

----------------------------------------------------------------------------
(* SpecVector: the long-term VectorMemory under AddLongTerm, Search, Get   *)
(* and Clear, under a free clock: two AddLongTerm calls in one tick share  *)
(* an identifier, two calls in different ticks do not.                     *)

MaxLongV == 2    \* AddLongTerm while the long-term tier holds fewer entries
MaxTimeV == 1    \* the clock runs 0..MaxTimeV

LongTermIDs == DOMAIN longTerm.entries \cup {SuppliedID}

VectorInit == StoreInit(SmallShortTermMax, {DefaultConfig.SimilarityCut})

VectorNext ==
    \/ (VectorMemory_Len(longTerm) < MaxLongV
          /\ \E v \in StoredVectors : AddLongTerm("m", v, 0))
    \/ (now < MaxTimeV /\ Tick)
    \/ \E q \in SearchQueries, k \in SearchLimits : Search(q, k)
    \/ \E id \in LongTermIDs : LongTermGet(id)
    \/ Clear

SpecVector == VectorInit /\ [][VectorNext]_vars

----------------------------------------------------------------------------
(* Claims about Search, Get, Delete and Add of the two vector stores.      *)

\* The scores of a result list do not increase from one result to the next.
NonIncreasing(results) ==
    \A i \in 1..(Len(results) - 1) : FGe(results[i].Score, results[i + 1].Score)

\* C14: the results of InMemoryStore.Search and of VectorMemory.Search
\* (through MemoryStore.Search) are sorted by non-increasing similarity, and
\* there are at most limit of them (none for a limit below 0) and at most as
\* many as the store holds.
C14_SearchSortedBounded ==
    /\ ret.op = "Store.Search"
         => /\ NonIncreasing(ret.val.results)
            /\ Len(ret.val.results) <= (IF ret.limit < 0 THEN 0 ELSE ret.limit)
            /\ Len(ret.val.results) <= InMemoryStore_Count(store)
    /\ (ret.op = "Search" /\ ~ret.val.panic)
         => /\ NonIncreasing(ret.val.results)
            /\ Len(ret.val.results) <= (IF ret.limit < 0 THEN 0 ELSE ret.limit)
            /\ Len(ret.val.results) <= VectorMemory_Len(longTerm)

\* The identifiers of a result list of InMemoryStore.Search.
StoreResultIDs(results) == {results[i].ID : i \in 1..Len(results)}

\* The identifiers of a result list of MemoryStore.Search.
ResultIDs(results) == {results[i].Entry.ID : i \in 1..Len(results)}

\* C15: Search with a limit k >= 1 returns min(k, Count()) results, and each
\* returned entry is at least as similar to the query as each stored entry
\* that is not returned; with the vectors [1,0] and [0,1] stored, a search
\* for [1,0] with limit 1 returns only the entry of [1,0], with score 1.
C15_SearchTopK ==
    /\ (ret.op = "Store.Search" /\ ret.limit >= 1)
         => /\ Len(ret.val.results) = Min(ret.limit, InMemoryStore_Count(store))
            /\ \A i \in 1..Len(ret.val.results) :
                 \A m \in DOMAIN store.vectors \ StoreResultIDs(ret.val.results) :
                    FGe(ret.val.results[i].Score,
                        StoreSimilarity[ret.query, store.vectors[m].Vector])
            /\ ({store.vectors[m].Vector : m \in DOMAIN store.vectors} = {E1, E2}
                  /\ InMemoryStore_Count(store) = 2 /\ ret.query = E1 /\ ret.limit = 1)
                 => /\ store.vectors[ret.val.results[1].ID].Vector = E1
                    /\ ret.val.results[1].Score = Scale
    /\ (ret.op = "Search" /\ ~ret.val.panic /\ ret.limit >= 1)
         => /\ Len(ret.val.results) = Min(ret.limit, VectorMemory_Len(longTerm))
            /\ \A i \in 1..Len(ret.val.results) :
                 \A m \in DOMAIN longTerm.vectors \ ResultIDs(ret.val.results) :
                    FGe(ret.val.results[i].Score,
                        Similarity[ret.embedding, longTerm.vectors[m]])
            /\ ({longTerm.vectors[m] : m \in DOMAIN longTerm.vectors} = {E1, E2}
                  /\ VectorMemory_Len(longTerm) = 2 /\ ret.embedding = E1 /\ ret.limit = 1)
                 => /\ longTerm.vectors[ret.val.results[1].Entry.ID] = E1
                    /\ ret.val.results[1].Score = Scale

\* C16: on an empty store Search returns an empty result list and no error,
\* and does not panic, for every query and every limit, in
\* InMemoryStore.Search and in VectorMemory.Search through MemoryStore.Search.
C16_SearchEmptyNeverFails ==
    /\ (ret.op = "Store.Search" /\ InMemoryStore_Count(store) = 0)
         => /\ ret.val.err = "nil"
            /\ ret.val.results = << >>
    /\ (ret.op = "Search" /\ VectorMemory_Len(longTerm) = 0)
         => /\ ~ret.val.panic
            /\ ret.val.results = << >>

\* C17: Get and Delete with an identifier that is not in the store return a
\* not-found error and leave the store as it was, in InMemoryStore.Get and
\* Delete and in VectorMemory.Get on the long-term tier.
C17_UnknownIdNotFound ==
    [][/\ (ret'.op = "Store.Get" /\ ret'.id \notin DOMAIN store.vectors)
            => (ret'.val.err = NotFound /\ store' = store)
       /\ (ret'.op = "Store.Delete" /\ ret'.id \notin DOMAIN store.vectors)
            => (ret'.err = NotFound /\ store' = store)
       /\ (ret'.op = "VectorMemory.Get" /\ ret'.id \notin DOMAIN longTerm.entries)
            => (ret'.val.err # "nil" /\ longTerm' = longTerm)]_vars

\* C20: InMemoryStore.Add with no identifier supplied inserts under an
\* identifier the store does not hold: Count() grows by exactly one and every
\* entry held before is unchanged.
C20_GeneratedIdFresh ==
    [][(ret'.op = "Store.Add" /\ ret'.supplied = NoID)
         => /\ ret'.id \notin DOMAIN store.vectors
            /\ InMemoryStore_Count(store') = InMemoryStore_Count(store) + 1
            /\ \A id \in DOMAIN store.vectors :
                  /\ id \in DOMAIN store'.vectors
                  /\ store'.vectors[id] = store.vectors[id]]_vars

\* C18: a successful InMemoryStore.Delete(id) leaves no entry under id (Get
\* reports not-found), lowers Count() by exactly one and changes no other
\* entry; Search and List return only identifiers the store holds, so none
\* returns id after the Delete.
C18_DeleteRemovesEntry ==
    [][/\ (ret'.op = "Store.Delete" /\ ret'.err = "nil")
            => /\ ret'.id \notin DOMAIN store'.vectors
               /\ InMemoryStore_Get(store', ret'.id).err = NotFound
               /\ InMemoryStore_Count(store') = InMemoryStore_Count(store) - 1
               /\ \A other \in DOMAIN store.vectors \ {ret'.id} :
                     /\ other \in DOMAIN store'.vectors
                     /\ store'.vectors[other] = store.vectors[other]
       /\ ret'.op = "Store.Search"
            => StoreResultIDs(ret'.val.results) \subseteq DOMAIN store.vectors
       /\ ret'.op = "Store.List"
            => \A i \in 1..Len(ret'.val) :
                  /\ ret'.val[i].Metadata.ID \in DOMAIN store.vectors
                  /\ store.vectors[ret'.val[i].Metadata.ID] = ret'.val[i]]_vars

\* A successful Delete that left another entry in the store.
C18_Witness ==
    /\ ret.op = "Store.Delete"
    /\ ret.err = "nil"
    /\ InMemoryStore_Count(store) >= 1

----------------------------------------------------------------------------
(* SpecPairing: the long-term VectorMemory with a goroutine inside         *)
(* VectorMemory.Add, a goroutine inside Consolidate, and callers of        *)
(* Search, Get, Stats and Clear that take vm.mu as the code does, under a  *)
(* free clock.                                                             *)

MaxLongP == 2    \* VectorMemory.Add while the long-term tier holds fewer entries
MaxTimeP == 1    \* the clock runs 0..MaxTimeP
MaxShortP == 1   \* AddShortTerm while the buffer holds fewer entries

PairingEmbeddings == {<< >>, E1}

\* No embedder, one whose Embed always fails, one whose Embed never fails.
PairingEmbedders ==
    {NilEmbedder, Embedder([c \in Contents |-> EmbedError]),
     Embedder([c \in Contents |-> EmbedOk(E1)])}

PairingInit == StoreInit(SmallShortTermMax, {DefaultConfig.SimilarityCut})

PairingNext ==
    \/ (CanLock(locks.m) /\ ConversationBuffer_Len(shortTerm) < MaxShortP
          /\ AddShortTerm("a", 0))
    \/ (now < MaxTimeP /\ Tick)
    \/ (VectorMemory_Len(longTerm) < MaxLongP
          /\ \E e \in PairingEmbeddings : VectorMemoryAddLock("m", e))
    \/ VectorMemoryAddEntry
    \/ VectorMemoryAddVector
    \/ VectorMemoryAddUnlock
    \/ \E em \in PairingEmbedders : ConsolidateLock(em)
    \/ (CanLock(locks.vm) /\ ConsolidateIter)
    \/ (CanLock(locks.vm) /\ ConsolidateEmbedReturn)
    \/ ConsolidateUnlock
    \/ (CanRLock(locks.m) /\ CanRLock(locks.vm) /\ Search(E1, 1))
    \/ (CanRLock(locks.vm) /\ \E id \in LongTermIDs : LongTermGet(id))
    \/ (CanRLock(locks.m) /\ CanRLock(locks.vm) /\ Stats)
    \/ (CanLock(locks.m) /\ CanLock(locks.vm) /\ Clear)

SpecPairing == PairingInit /\ [][PairingNext]_vars

\* C19: whenever vm.mu is not held by a writer, the identifiers with an entry
\* in VectorMemory are the identifiers with a vector slot.
C19_EntryVectorPairing ==
    CanRLock(locks.vm) => DOMAIN longTerm.entries = DOMAIN longTerm.vectors

\* Two entries are held, one of them with a nil embedding.
C19_Witness ==
    /\ CanRLock(locks.vm)
    /\ VectorMemory_Len(longTerm) >= 2
    /\ \E id \in DOMAIN longTerm.vectors : longTerm.vectors[id] = << >>

----------------------------------------------------------------------------
(* SpecPersist: an InMemoryStore under Add, Delete, Save and Load, with    *)
(* the process replacing the store by a fresh one and the file being       *)
(* removed or overwritten from outside, all within one second.             *)

MaxStoreF == 2    \* InMemoryStore.Add while the store holds fewer entries

\* The content, tags and custom map of the entries added.
PersistMetadata ==
    {[Content |-> "a", Tags |-> << >>, Custom |-> EmptyMap],
     [Content |-> "b", Tags |-> <<"t">>, Custom |-> [k \in {"k"} |-> "v"]],
     [Content |-> InvalidUTF8, Tags |-> << >>, Custom |-> EmptyMap]}

PersistInit == StoreInit(SmallShortTermMax, {DefaultConfig.SimilarityCut})

PersistNext ==
    \/ (InMemoryStore_Count(store) < MaxStoreF
          /\ \E id \in {NoID, SuppliedID}, m \in PersistMetadata :
                StoreAddTagged(E1, id, m.Content, m.Tags, m.Custom))
    \/ \E id \in DOMAIN store.vectors : StoreDelete(id)
    \/ StoreSave
    \/ StoreLoad
    \/ StoreNew
    \/ \E file \in {NoFile, GarbageFile} : FileChange(file)
    \/ StoreCount

SpecPersist == PersistInit /\ [][PersistNext]_vars

----------------------------------------------------------------------------
(* SpecCosine: memory.cosineSimilarity and vector.Similarity called with   *)
(* every pair of vectors of at most MaxDim components, each -1, 0 or 1.    *)

MaxDim == 2    \* the vectors have 0..MaxDim components

CosineComponents == {-Scale, 0, Scale}

CosineVectors == UNION {[1..n -> CosineComponents] : n \in 0..MaxDim}

CosineInit == StoreInit(SmallShortTermMax, {DefaultConfig.SimilarityCut})

CosineNext ==
    \/ \E a \in CosineVectors, b \in CosineVectors : CosineCall(a, b)
    \/ \E a \in CosineVectors, b \in CosineVectors : SimilarityCall(a, b)

SpecCosine == CosineInit /\ [][CosineNext]_vars

----------------------------------------------------------------------------
(* SpecWorking: a MemoryStore with a small WorkingMax under AddWorking     *)
(* with several priorities, in different ticks of the clock, and Clear,    *)
(* Stats, WorkingMemory.GetAll and GetContext.                             *)

SmallWorkingMax == 1    \* config.WorkingMax
MaxAddsW == 3           \* AddWorking while the working tier holds fewer entries
MaxTimeW == 4           \* the clock runs 0..MaxTimeW

Priorities == {1, 2, 3}

WorkingInit ==
    /\ now = 0
    /\ LET m == NewMemoryStore([ShortTermMax |-> SmallShortTermMax,
                                WorkingMax |-> SmallWorkingMax,
                                SimilarityCut |-> DefaultConfig.SimilarityCut])
       IN  /\ config = m.config
           /\ shortTerm = m.shortTerm
           /\ longTerm = m.longTerm
           /\ workingSet = m.workingSet
    /\ ret = NoCall
    /\ hist = NoHist
    /\ store = NewInMemoryStore
    /\ locks = NoLocks
    /\ pc = Idle
    /\ disk = NoFile
    /\ sm = NewSecurityManager
    /\ cm = NewChatManager(0)
    /\ mq = NoQueue

WorkingNext ==
    \/ (WorkingMemory_Len(workingSet) < MaxAddsW /\ now < MaxTimeW
          /\ \E p \in Priorities : AddWorking("w", p, 1))
    \/ Clear
    \/ Stats
    \/ WorkingGetAll
    \/ GetContext(<< >>, MaxInt)

SpecWorking == WorkingInit /\ [][WorkingNext]_vars

----------------------------------------------------------------------------
(* AddShortTerm step by step, one goroutine per element of Adders: the     *)
(* store-wide lock, the entry, and the statements of ConversationBuffer.Add. *)
(* hist records the entries in the order their calls built them.           *)

\* AddShortTerm that goes on without m.mu.
AddShortTermLock_NoLock(g, content) ==
    /\ pc.short[g].at = "idle"
    /\ pc' = [pc EXCEPT !.short[g] = [at |-> "locked", content |-> content]]
    /\ UNCHANGED <<sm, cm, mq, disk, store, locks, now, config, shortTerm, longTerm, workingSet, ret,
                   hist>>

\* memory.go line 77: m.mu.Lock().
AddShortTermLock(g, content) ==
    /\ pc.short[g].at = "idle"
    /\ CanLock(locks.m)
    /\ locks' = [locks EXCEPT !.m.writer = "AddShortTerm"]
    /\ pc' = [pc EXCEPT !.short[g] = [at |-> "locked", content |-> content]]
    /\ UNCHANGED <<sm, cm, mq, disk, store, now, config, shortTerm, longTerm, workingSet, ret, hist>>

\* Lines 80-86: the entry, its identifier read from the clock.
AddShortTermEntry(g) ==
    /\ pc.short[g].at = "locked"
    /\ LET entry == MemoryEntry(NewID("st"), pc.short[g].content, now, EmptyMap)
       IN  /\ pc' = [pc EXCEPT !.short[g] = [at |-> "evict", entry |-> entry]]
           /\ hist' = [hist EXCEPT !.n = @ + 1, !.adds = Append(@, entry)]
    /\ UNCHANGED <<sm, cm, mq, disk, store, locks, now, config, shortTerm, longTerm, workingSet, ret>>

\* ConversationBuffer.Add lines 30-33: at capacity the front element leaves
\* the list.
AddShortTermEvict(g) ==
    /\ pc.short[g].at = "evict"
    /\ IF Len(shortTerm.buffer) >= shortTerm.maxSize /\ Len(shortTerm.buffer) > 0
       THEN /\ shortTerm' = [shortTerm EXCEPT !.buffer = Tail(@)]
            /\ pc' = [pc EXCEPT !.short[g] =
                         [at |-> "delete", entry |-> pc.short[g].entry,
                          oldest |-> Head(shortTerm.buffer)]]
       ELSE /\ pc' = [pc EXCEPT !.short[g].at = "push"]
            /\ UNCHANGED shortTerm
    /\ UNCHANGED <<sm, cm, mq, disk, store, locks, now, config, longTerm, workingSet, ret, hist>>

\* Line 34: delete(cb.entries, oldest.Value.(MemoryEntry).ID).
AddShortTermDelete(g) ==
    /\ pc.short[g].at = "delete"
    /\ shortTerm' = [shortTerm EXCEPT
                        !.entries = MapDelete(@, pc.short[g].oldest.Value.ID)]
    /\ pc' = [pc EXCEPT !.short[g] = [at |-> "push", entry |-> pc.short[g].entry]]
    /\ UNCHANGED <<sm, cm, mq, disk, store, locks, now, config, longTerm, workingSet, ret, hist>>

\* Line 38: elem := cb.buffer.PushBack(entry).
AddShortTermPush(g) ==
    /\ pc.short[g].at = "push"
    /\ LET elem == [node |-> NewNode(shortTerm), Value |-> pc.short[g].entry]
       IN  /\ shortTerm' = [shortTerm EXCEPT !.buffer = Append(@, elem)]
           /\ pc' = [pc EXCEPT !.short[g] =
                        [at |-> "index", entry |-> pc.short[g].entry, elem |-> elem]]
    /\ UNCHANGED <<sm, cm, mq, disk, store, locks, now, config, longTerm, workingSet, ret, hist>>

\* Line 39: cb.entries[entry.ID] = elem.
AddShortTermIndex(g) ==
    /\ pc.short[g].at = "index"
    /\ shortTerm' = [shortTerm EXCEPT
                        !.entries = MapPut(@, pc.short[g].entry.ID, pc.short[g].elem.node)]
    /\ pc' = [pc EXCEPT !.short[g] = [at |-> "unlock", entry |-> pc.short[g].entry]]
    /\ UNCHANGED <<sm, cm, mq, disk, store, locks, now, config, longTerm, workingSet, ret, hist>>

\* The return and the deferred m.mu.Unlock() of line 78.
AddShortTermUnlock(g) ==
    /\ pc.short[g].at = "unlock"
    /\ locks' = [locks EXCEPT !.m.writer = "none"]
    /\ pc' = [pc EXCEPT !.short[g] = [at |-> "idle"]]
    /\ ret' = [op |-> "AddShortTerm", entry |-> pc.short[g].entry]
    /\ UNCHANGED <<sm, cm, mq, disk, store, now, config, shortTerm, longTerm, workingSet, hist>>

----------------------------------------------------------------------------
(* SpecSerial: the goroutines of Adders in AddShortTerm next to the        *)
(* readers Stats and GetContext, under a free clock.                       *)

MaxCallsS == 3      \* AddShortTerm calls in all
MaxTimeA == 1       \* the clock runs 0..MaxTimeA

SerialInit == StoreInit(SmallShortTermMax, {DefaultConfig.SimilarityCut})

SerialNext ==
    \/ \E g \in Adders, content \in Contents :
          /\ hist.n + Cardinality({h \in Adders : pc.short[h].at = "locked"}) < MaxCallsS
          /\ AddShortTermLock(g, content)
    \/ \E g \in Adders : AddShortTermEntry(g)
    \/ \E g \in Adders : AddShortTermEvict(g)
    \/ \E g \in Adders : AddShortTermDelete(g)
    \/ \E g \in Adders : AddShortTermPush(g)
    \/ \E g \in Adders : AddShortTermIndex(g)
    \/ \E g \in Adders : AddShortTermUnlock(g)
    \/ (CanRLock(locks.m) /\ Stats)
    \/ (CanRLock(locks.m) /\ GetContext(E1, MaxInt))
    \/ (now < MaxTimeA /\ Tick)

SpecSerial == SerialInit /\ [][SerialNext]_vars

----------------------------------------------------------------------------
(* SpecStats: a MemoryStore under AddShortTerm, AddLongTerm, AddWorking,   *)
(* Consolidate, Clear, Stats and GetContext, under a free clock.           *)

MaxTimeT == 1       \* the clock runs 0..MaxTimeT
MaxWorkingT == 1    \* AddWorking while the working tier holds fewer entries
MaxSearchedT == 2   \* GetContext while the long-term tier holds no more entries

StatsInit == StoreInit(SmallShortTermMax, {DefaultConfig.SimilarityCut})

StatsNext ==
    \/ AddShortTerm("a", 0)
    \/ AddLongTerm("m", E1, 0)
    \/ (WorkingMemory_Len(workingSet) < MaxWorkingT /\ AddWorking("w", 1, 0))
    \/ Consolidate(NilEmbedder)
    \/ Clear
    \/ Stats
    \/ (VectorMemory_Len(longTerm) <= MaxSearchedT /\ GetContext(E1, MaxInt))
    \/ (now < MaxTimeT /\ Tick)

SpecStats == StatsInit /\ [][StatsNext]_vars

----------------------------------------------------------------------------
(* SpecRecent: a ConversationBuffer under Add, Remove, Clear and GetRecent *)
(* with counts up to the largest int; GetRecent with its allocation.       *)

\* The machine words of one MemoryEntry (three strings, a time.Time, a map
\* and a slice).
EntryWords == 13

\* make([]MemoryEntry, 0, count) panics (makeslice: cap out of range) for a
\* negative count and for one whose size in words exceeds what an int holds.
MakeSlicePanics(count) == count < 0 \/ count > MaxInt \div EntryWords

\* GetRecent (lines 43-53): the allocation, then the walk from the back.
ConversationBuffer_GetRecentCall(cb, count) ==
    IF MakeSlicePanics(count)
    THEN [panic |-> TRUE, val |-> << >>]
    ELSE [panic |-> FALSE, val |-> ConversationBuffer_GetRecent(cb, count)]

RecentCounts == 0..(MaxInt \div EntryWords) \cup {-1, MaxInt}

BufGetRecentCall ==
    \E count \in RecentCounts :
        LET r == ConversationBuffer_GetRecentCall(shortTerm, count)
        IN  /\ ret' = [op |-> "GetRecent", count |-> count, panic |-> r.panic,
                       val |-> r.val]
            /\ UNCHANGED <<sm, cm, mq, disk, store, locks, pc, now, config, shortTerm, longTerm,
                           workingSet, hist>>

RecentNext ==
    \/ (hist.n < MaxAdds /\ BufAdd)
    \/ BufRemove
    \/ BufClear
    \/ BufGetRecentCall

SpecRecent == BufInit /\ [][RecentNext]_vars

----------------------------------------------------------------------------
(* SecurityManager (package security).  Every method holds sm.mu.Lock()    *)
(* from its first line to its return, so each is one step.  Next to the    *)
(* two maps the record keeps three histories: the keys and session ids     *)
(* crypto/rand has produced (issued), the keys RevokeAPIKey has revoked,   *)
(* and the session ids that have been seen past their ExpiresAt.           *)

\* A key or session id made from random bytes: one of a pool, never one
\* that was produced before.
RandomIDs == {<<"rand", 1>>}

\* generateKey when rand.Read fails: the date prefix and sixteen "x" bytes.
FallbackKey == <<"goclaw_x", (now * TickHours) \div 24>>

\* generateSecret when rand.Read fails: the clock reading.
FallbackSecret == <<"ns", now>>

\* The values generateKey may return.
generateKey == {FallbackKey} \cup (RandomIDs \ sm.issued)

\* The values generateSecret may return.
generateSecret == {FallbackSecret} \cup (RandomIDs \ sm.issued)

\* time.Now().After(t).
After(t) == now > t

GenerateAPIKey(name, scopes, ttl) ==
    \E key \in generateKey :
        LET apiKey == [Key |-> key, Name |-> name, Scopes |-> scopes,
                       ExpiresAt |-> now + ttl, LastUsedAt |-> 0, Active |-> TRUE]
        IN  /\ sm' = [sm EXCEPT !.apiKeys = MapPut(@, key, apiKey),
                                !.issued  = @ \cup ({key} \cap RandomIDs)]
            /\ ret' = [op |-> "GenerateAPIKey", key |-> key, err |-> "nil"]
            /\ UNCHANGED <<memoryVars, now, cm, mq>>

\* ValidateAPIKey applied to the apiKeys map: the new map and the result.
ValidateAPIKeyResult(apiKeys, key) ==
    IF key \notin DOMAIN apiKeys
    THEN [apiKeys |-> apiKeys, err |-> "ErrInvalidToken"]
    ELSE IF ~apiKeys[key].Active
    THEN [apiKeys |-> apiKeys, err |-> "ErrUnauthorized"]
    ELSE IF After(apiKeys[key].ExpiresAt)
    THEN [apiKeys |-> apiKeys, err |-> "ErrInvalidToken"]
    ELSE [apiKeys |-> [apiKeys EXCEPT ![key].LastUsedAt = now], err |-> "nil",
          val |-> [apiKeys[key] EXCEPT !.LastUsedAt = now]]

ValidateAPIKey(key) ==
    LET r == ValidateAPIKeyResult(sm.apiKeys, key)
    IN  /\ sm' = [sm EXCEPT !.apiKeys = r.apiKeys]
        /\ ret' = [op |-> "ValidateAPIKey", key |-> key, err |-> r.err,
                   existed |-> key \in DOMAIN sm.apiKeys]
        /\ UNCHANGED <<memoryVars, now, cm, mq>>

\* CheckScope: ValidateAPIKey, then the scan of the scopes.
CheckScope(key, requiredScope) ==
    LET r == ValidateAPIKeyResult(sm.apiKeys, key)
    IN  /\ sm' = [sm EXCEPT !.apiKeys = r.apiKeys]
        /\ ret' = [op |-> "CheckScope", key |-> key, scope |-> requiredScope,
                   val |-> IF r.err # "nil" THEN FALSE
                           ELSE \E i \in 1..Len(r.val.Scopes) :
                                   r.val.Scopes[i] = requiredScope \/ r.val.Scopes[i] = "*"]
        /\ UNCHANGED <<memoryVars, now, cm, mq>>

\* The session ids of a map that are past their ExpiresAt at time t.
PastExpiry(sessions, t) == {id \in DOMAIN sessions : t > sessions[id].ExpiresAt}

CreateSession(userID, ttl) ==
    \E sessionID \in generateSecret :
        LET session == [ID |-> sessionID, UserID |-> userID, ExpiresAt |-> now + ttl,
                        LastSeen |-> now]
            sessions == MapPut(sm.sessions, sessionID, session)
        IN  /\ sm' = [sm EXCEPT !.sessions = sessions,
                                !.issued   = @ \cup ({sessionID} \cap RandomIDs),
                                !.expired  = @ \cup PastExpiry(sessions, now)]
            /\ ret' = [op |-> "CreateSession", id |-> sessionID, err |-> "nil"]
            /\ UNCHANGED <<memoryVars, now, cm, mq>>

ValidateSession(sessionID) ==
    /\ IF sessionID \notin DOMAIN sm.sessions
       THEN /\ ret' = [op |-> "ValidateSession", id |-> sessionID,
                       err |-> "ErrInvalidToken"]
            /\ UNCHANGED sm
       ELSE IF After(sm.sessions[sessionID].ExpiresAt)
       THEN /\ sm' = [sm EXCEPT !.sessions = MapDelete(@, sessionID)]
            /\ ret' = [op |-> "ValidateSession", id |-> sessionID,
                       err |-> "ErrInvalidToken"]
       ELSE /\ sm' = [sm EXCEPT !.sessions[sessionID].LastSeen = now]
            /\ ret' = [op |-> "ValidateSession", id |-> sessionID, err |-> "nil"]
    /\ UNCHANGED <<memoryVars, now, cm, mq>>

RefreshSession(sessionID, ttl) ==
    /\ IF sessionID \notin DOMAIN sm.sessions
       THEN /\ ret' = [op |-> "RefreshSession", id |-> sessionID,
                       err |-> "ErrInvalidToken"]
            /\ UNCHANGED sm
       ELSE LET sessions == [sm.sessions EXCEPT ![sessionID].ExpiresAt = now + ttl,
                                                ![sessionID].LastSeen = now]
            IN  /\ sm' = [sm EXCEPT !.sessions = sessions,
                                    !.expired  = @ \cup PastExpiry(sessions, now)]
                /\ ret' = [op |-> "RefreshSession", id |-> sessionID, err |-> "nil"]
    /\ UNCHANGED <<memoryVars, now, cm, mq>>

RevokeSession(sessionID) ==
    /\ IF sessionID \notin DOMAIN sm.sessions
       THEN /\ ret' = [op |-> "RevokeSession", id |-> sessionID,
                       err |-> "ErrInvalidToken"]
            /\ UNCHANGED sm
       ELSE /\ sm' = [sm EXCEPT !.sessions = MapDelete(@, sessionID)]
            /\ ret' = [op |-> "RevokeSession", id |-> sessionID, err |-> "nil"]
    /\ UNCHANGED <<memoryVars, now, cm, mq>>

RevokeAPIKey(key) ==
    /\ IF key \notin DOMAIN sm.apiKeys
       THEN /\ ret' = [op |-> "RevokeAPIKey", key |-> key, err |-> "ErrInvalidToken"]
            /\ UNCHANGED sm
       ELSE /\ sm' = [sm EXCEPT !.apiKeys[key].Active = FALSE,
                                !.revoked = @ \cup {key}]
            /\ ret' = [op |-> "RevokeAPIKey", key |-> key, err |-> "nil"]
    /\ UNCHANGED <<memoryVars, now, cm, mq>>

CleanupExpired ==
    /\ sm' = [sm EXCEPT
                 !.sessions = [id \in DOMAIN @ \ PastExpiry(@, now) |-> @[id]],
                 !.apiKeys  = [k \in {x \in DOMAIN @ : ~After(@[x].ExpiresAt)} |-> @[k]]]
    /\ ret' = [op |-> "CleanupExpired"]
    /\ UNCHANGED <<memoryVars, now, cm, mq>>

\* The clock advances between calls.
SecurityTick ==
    /\ now' = now + 1
    /\ sm' = [sm EXCEPT !.expired = @ \cup PastExpiry(sm.sessions, now + 1)]
    /\ ret' = NoCall
    /\ UNCHANGED <<memoryVars, cm, mq>>

----------------------------------------------------------------------------
(* SpecSecurity: a SecurityManager driven through its methods under a      *)
(* clock that advances between calls.                                      *)

MaxTimeK == 1       \* the clock runs 0..MaxTimeK
MaxKeysK == 2       \* GenerateAPIKey while fewer keys were generated
MaxSessionsK == 1   \* CreateSession while fewer sessions were created

\* The keys and the session ids a caller may hold.
SecurityKeys == RandomIDs \cup {<<"goclaw_x", d>> : d \in 0..((MaxTimeK * TickHours) \div 24)}

SecurityIDs == RandomIDs \cup {<<"ns", t>> : t \in 0..MaxTimeK}

SecurityTTLs == {0, 1}

SecurityInit == StoreInit(SmallShortTermMax, {DefaultConfig.SimilarityCut})

SecurityNext ==
    \/ (Cardinality(DOMAIN sm.apiKeys) < MaxKeysK
          /\ \E scopes \in {<<"read">>, <<"*">>}, ttl \in SecurityTTLs :
                GenerateAPIKey("n", scopes, ttl))
    \/ \E key \in SecurityKeys : ValidateAPIKey(key)
    \/ \E key \in SecurityKeys : CheckScope(key, "read")
    \/ \E key \in SecurityKeys : RevokeAPIKey(key)
    \/ (Cardinality(DOMAIN sm.sessions) < MaxSessionsK
          /\ \E ttl \in SecurityTTLs : CreateSession("u", ttl))
    \/ \E id \in SecurityIDs : ValidateSession(id)
    \/ \E id \in SecurityIDs, ttl \in SecurityTTLs : RefreshSession(id, ttl)
    \/ \E id \in SecurityIDs : RevokeSession(id)
    \/ CleanupExpired
    \/ (now < MaxTimeK /\ SecurityTick)

SpecSecurity == SecurityInit /\ [][SecurityNext]_vars

----------------------------------------------------------------------------
(* SpecHeap: the working tier under WorkingMemory.Add with entries whose   *)
(* metadata holds an integer priority, another value, or none; the content *)
(* of an entry names the priority Add reads.                               *)

MaxHeapH == 4       \* WorkingMemory.Add while the tier holds fewer entries

\* Entries with priority 0 (no metadata, or a float64 priority), 1 and 2.
HeapEntries ==
    {MemoryEntry(<<"wm", 0>>, "p0", 0, EmptyMap),
     MemoryEntry(<<"wm", 0>>, "p0", 0, [priority |-> GoFloat64(2)]),
     MemoryEntry(<<"wm", 0>>, "p1", 0, [priority |-> GoInt(1)]),
     MemoryEntry(<<"wm", 0>>, "p2", 0, [priority |-> GoInt(2)])}

ContentPriority == [c \in {"p0", "p1", "p2"} |-> IF c = "p0" THEN 0 ELSE IF c = "p1" THEN 1 ELSE 2]

WorkingAdd ==
    \E entry \in HeapEntries :
        /\ workingSet' = WorkingMemory_Add(workingSet, entry)
        /\ ret' = [op |-> "WorkingMemory.Add", entry |-> entry]
        /\ UNCHANGED <<sm, cm, mq, disk, store, locks, pc, now, config, shortTerm, longTerm,
                       hist>>

HeapNext ==
    \/ (WorkingMemory_Len(workingSet) < MaxHeapH /\ WorkingAdd)
    \/ Clear
    \/ WorkingGetAll
    \/ \E t \in {0, MaxInt} : GetContext(<< >>, t)

SpecHeap == StoreInit(SmallShortTermMax, {DefaultConfig.SimilarityCut}) /\ [][HeapNext]_vars

----------------------------------------------------------------------------
(* The locks of the MemoryStore under concurrent callers.  Every public    *)
(* method is the sequence of lock operations it performs: the store lock   *)
(* m first (deferred unlock last), then the lock of each tier it calls     *)
(* into, taken and released inside the tier's own method.  The              *)
(* ConversationBuffer has no lock.  A sync.RWMutex serves a writer in two   *)
(* steps: Lock first announces the writer, which keeps new readers out,    *)
(* then waits for the readers inside to leave.                              *)

MaxRoundsL == 1     \* entries one Consolidate call moves

Methods == {"AddShortTerm", "AddLongTerm", "AddWorking", "Search",
            "GetContext", "Consolidate", "Clear", "Stats"}

LockStep(do, mu) == [do |-> do, mu |-> mu]

\* One round of the loop of Consolidate for an eligible entry: the embedding
\* call when an embedder is given, then longTerm.Add.
ConsolidateRound(embedder) ==
    (IF embedder THEN <<LockStep("Embed", "m")>> ELSE <<>>)
    \o <<LockStep("Lock", "vm"), LockStep("Unlock", "vm")>>

RECURSIVE ConsolidateRounds(_, _)
ConsolidateRounds(n, embedder) ==
    IF n = 0 THEN <<>>
    ELSE ConsolidateRound(embedder) \o ConsolidateRounds(n - 1, embedder)

\* A method that calls the public AddLongTerm from inside Consolidate.
LockScript_Reentrant(op, n, embedder) ==
    CASE op = "AddShortTerm" -> <<LockStep("Lock", "m"), LockStep("Unlock", "m")>>
      [] op = "AddLongTerm" ->
            <<LockStep("Lock", "m"), LockStep("Lock", "vm"),
              LockStep("Unlock", "vm"), LockStep("Unlock", "m")>>
      [] op = "AddWorking" ->
            <<LockStep("Lock", "m"), LockStep("Lock", "wm"),
              LockStep("Unlock", "wm"), LockStep("Unlock", "m")>>
      [] op = "Search" ->
            <<LockStep("RLock", "m"), LockStep("RLock", "vm"),
              LockStep("RUnlock", "vm"), LockStep("RUnlock", "m")>>
      [] op = "GetContext" ->
            <<LockStep("RLock", "m"), LockStep("RLock", "wm"),
              LockStep("RUnlock", "wm"), LockStep("RLock", "vm"),
              LockStep("RUnlock", "vm"), LockStep("RUnlock", "m")>>
      [] op = "Consolidate" ->
            <<LockStep("Lock", "m")>>
            \o (IF n = 0 THEN <<>>
                ELSE <<LockStep("Lock", "m"), LockStep("Lock", "vm"),
                       LockStep("Unlock", "vm"), LockStep("Unlock", "m")>>)
            \o <<LockStep("Unlock", "m")>>
      [] op = "Clear" ->
            <<LockStep("Lock", "m"), LockStep("Lock", "vm"),
              LockStep("Unlock", "vm"), LockStep("Lock", "wm"),
              LockStep("Unlock", "wm"), LockStep("Unlock", "m")>>
      [] op = "Stats" ->
            <<LockStep("RLock", "m"), LockStep("RLock", "vm"),
              LockStep("RUnlock", "vm"), LockStep("RLock", "wm"),
              LockStep("RUnlock", "wm"), LockStep("RUnlock", "m")>>

\* The lock operations of one call of a public method, in program order;
\* Consolidate moves n entries.
LockScript(op, n, embedder) ==
    CASE op = "AddShortTerm" -> <<LockStep("Lock", "m"), LockStep("Unlock", "m")>>
      [] op = "AddLongTerm" ->
            <<LockStep("Lock", "m"), LockStep("Lock", "vm"),
              LockStep("Unlock", "vm"), LockStep("Unlock", "m")>>
      [] op = "AddWorking" ->
            <<LockStep("Lock", "m"), LockStep("Lock", "wm"),
              LockStep("Unlock", "wm"), LockStep("Unlock", "m")>>
      [] op = "Search" ->
            <<LockStep("RLock", "m"), LockStep("RLock", "vm"),
              LockStep("RUnlock", "vm"), LockStep("RUnlock", "m")>>
      [] op = "GetContext" ->
            <<LockStep("RLock", "m"), LockStep("RLock", "wm"),
              LockStep("RUnlock", "wm"), LockStep("RLock", "vm"),
              LockStep("RUnlock", "vm"), LockStep("RUnlock", "m")>>
      [] op = "Consolidate" ->
            <<LockStep("Lock", "m")>> \o ConsolidateRounds(n, embedder)
            \o <<LockStep("Unlock", "m")>>
      [] op = "Clear" ->
            <<LockStep("Lock", "m"), LockStep("Lock", "vm"),
              LockStep("Unlock", "vm"), LockStep("Lock", "wm"),
              LockStep("Unlock", "wm"), LockStep("Unlock", "m")>>
      [] op = "Stats" ->
            <<LockStep("RLock", "m"), LockStep("RLock", "vm"),
              LockStep("RUnlock", "vm"), LockStep("RLock", "wm"),
              LockStep("RUnlock", "wm"), LockStep("RUnlock", "m")>>

\* Caller c is inside a call and its next operation is `do`.
CallAt(c, do) ==
    /\ pc.call[c].at = "run"
    /\ pc.call[c].script # <<>>
    /\ Head(pc.call[c].script).do = do

\* Caller c has done its next operation.
CallAdvance(c) ==
    [pc EXCEPT !.call[c].script = Tail(@), !.call[c].announced = FALSE]

\* Caller c calls a public method.
CallBegin(c, op, n, embedder) ==
    /\ pc.call[c].at = "idle"
    /\ pc' = [pc EXCEPT !.call[c] =
                [at |-> "run", op |-> op, announced |-> FALSE,
                 script |-> LockScript(op, n, embedder)]]
    /\ UNCHANGED <<sm, cm, mq, now, config, shortTerm, longTerm, workingSet,
                   ret, hist, store, locks, disk>>

\* mu.Lock(), first half: the writer is announced once no other writer
\* holds or waits for the mutex; readers arriving later wait.
CallAnnounce(c) ==
    /\ CallAt(c, "Lock")
    /\ ~pc.call[c].announced
    /\ LET mu == Head(pc.call[c].script).mu
       IN /\ locks[mu].writer = "none"
          /\ ~locks[mu].pending
          /\ locks' = [locks EXCEPT ![mu].pending = TRUE]
    /\ pc' = [pc EXCEPT !.call[c].announced = TRUE]
    /\ UNCHANGED <<sm, cm, mq, now, config, shortTerm, longTerm, workingSet,
                   ret, hist, store, disk>>

\* mu.Lock(), second half: the readers inside have left.
CallLock(c) ==
    /\ CallAt(c, "Lock")
    /\ pc.call[c].announced
    /\ LET mu == Head(pc.call[c].script).mu
       IN /\ locks[mu].readers = 0
          /\ locks' = [locks EXCEPT ![mu].writer = "call",
                                    ![mu].pending = FALSE]
    /\ pc' = CallAdvance(c)
    /\ UNCHANGED <<sm, cm, mq, now, config, shortTerm, longTerm, workingSet,
                   ret, hist, store, disk>>

\* mu.RLock().
CallRLock(c) ==
    /\ CallAt(c, "RLock")
    /\ LET mu == Head(pc.call[c].script).mu
       IN /\ CanRLock(locks[mu])
          /\ locks' = [locks EXCEPT ![mu].readers = @ + 1]
    /\ pc' = CallAdvance(c)
    /\ UNCHANGED <<sm, cm, mq, now, config, shortTerm, longTerm, workingSet,
                   ret, hist, store, disk>>

\* mu.Unlock().
CallUnlock(c) ==
    /\ CallAt(c, "Unlock")
    /\ LET mu == Head(pc.call[c].script).mu
       IN locks' = [locks EXCEPT ![mu].writer = "none"]
    /\ pc' = CallAdvance(c)
    /\ UNCHANGED <<sm, cm, mq, now, config, shortTerm, longTerm, workingSet,
                   ret, hist, store, disk>>

\* mu.RUnlock().
CallRUnlock(c) ==
    /\ CallAt(c, "RUnlock")
    /\ LET mu == Head(pc.call[c].script).mu
       IN locks' = [locks EXCEPT ![mu].readers = @ - 1]
    /\ pc' = CallAdvance(c)
    /\ UNCHANGED <<sm, cm, mq, now, config, shortTerm, longTerm, workingSet,
                   ret, hist, store, disk>>

\* embedder.Embed returns to Consolidate.
CallEmbedReturn(c) ==
    /\ CallAt(c, "Embed")
    /\ pc' = CallAdvance(c)
    /\ UNCHANGED <<sm, cm, mq, now, config, shortTerm, longTerm, workingSet,
                   ret, hist, store, locks, disk>>

\* The method returns to its caller.
CallReturn(c) ==
    /\ pc.call[c].at = "run"
    /\ pc.call[c].script = <<>>
    /\ pc' = [pc EXCEPT !.call[c] = [at |-> "idle"]]
    /\ UNCHANGED <<sm, cm, mq, now, config, shortTerm, longTerm, workingSet,
                   ret, hist, store, locks, disk>>

CallsNext ==
    \/ \E c \in Callers, op \in Methods, n \in 0..MaxRoundsL, e \in BOOLEAN :
           /\ op # "Consolidate" => (n = 0 /\ ~e)
           /\ CallBegin(c, op, n, e)
    \/ \E c \in Callers : CallAnnounce(c)
    \/ \E c \in Callers : CallLock(c)
    \/ \E c \in Callers : CallRLock(c)
    \/ \E c \in Callers : CallUnlock(c)
    \/ \E c \in Callers : CallRUnlock(c)
    \/ \E c \in Callers : CallEmbedReturn(c)
    \/ \E c \in Callers : CallReturn(c)

CallsInit == StoreInit(SmallShortTermMax, {DefaultConfig.SimilarityCut})

SpecCalls == CallsInit /\ [][CallsNext]_vars

\* The next step of caller c inside its call; at most one of them is
\* possible at any time, because a goroutine runs its method in order.
CallStep(c) ==
    \/ CallAnnounce(c)
    \/ CallLock(c)
    \/ CallRLock(c)
    \/ CallUnlock(c)
    \/ CallRUnlock(c)
    \/ CallEmbedReturn(c)
    \/ CallReturn(c)

\* The scheduling of the Go runtime: a goroutine that can run does run, a
\* sync.Mutex hands itself to a goroutine that keeps waiting (starvation
\* mode), and the readers a writer kept out are let in when it unlocks.
\* A step that waits for a lock is possible again and again rather than
\* continuously, hence strong fairness.  Nothing obliges a caller to begin
\* a call.
CallsFairness == \A c \in Callers : SF_vars(CallStep(c))

SpecCallsFair == SpecCalls /\ CallsFairness

(* Claims about identifiers, persistence, similarity and the working set.  *)

\* The identifiers of the entries the three tiers hold.
HeldIDs ==
    {shortTerm.buffer[i].Value.ID : i \in 1..Len(shortTerm.buffer)}
        \cup DOMAIN longTerm.entries
        \cup {workingSet.items[i].ID : i \in 1..Len(workingSet.items)}

\* C21: the identifier AddShortTerm, AddWorking or AddLongTerm gives the
\* entry it creates is carried by no entry that a tier holds at the call.
C21_FreshIdentifiers ==
    [][ret'.op \in {"AddShortTerm", "AddWorking", "AddLongTerm"}
         => ret'.entry.ID \notin HeldIDs]_vars

\* C22: after a successful Save, Load of the file into a fresh store gives a
\* store with the identifiers of the saved store, each with the vector and
\* the metadata it has in the saved store.
C22_SaveLoadRoundTrip ==
    [][(ret'.op = "Store.Save" /\ ret'.err = "nil")
         => LET loaded == InMemoryStore_Load(NewInMemoryStore, disk')
            IN  /\ loaded.err = "nil"
                /\ loaded.store.vectors = store.vectors]_vars

\* C23: Load with no file at the path returns no error and leaves the store
\* empty.
C23_LoadMissingEmpty ==
    [][(ret'.op = "Store.Load" /\ disk.kind = "missing")
         => /\ ret'.err = "nil"
            /\ InMemoryStore_Count(store') = 0]_vars

\* C24: Load of a file that cannot be decoded returns an error and leaves
\* the store as it was; Load of a file that can be decoded returns no error
\* and leaves the store with exactly the entries of the file.
C24_LoadMalformedOrReplace ==
    [][ret'.op = "Store.Load"
         => /\ disk.kind = "garbage" => (ret'.err # "nil" /\ store' = store)
            /\ disk.kind = "json"
                 => /\ ret'.err = "nil"
                    /\ DOMAIN store'.vectors = DOMAIN disk.value
                    /\ \A id \in DOMAIN disk.value :
                          /\ store'.vectors[id].Vector = disk.value[id].Vector
                          /\ store'.vectors[id].Metadata = disk.value[id].Metadata]_vars

\* A Load failed on an undecodable file with entries in the store.
C24_Witness ==
    /\ ret.op = "Store.Load"
    /\ ret.err # "nil"
    /\ disk.kind = "garbage"
    /\ InMemoryStore_Count(store) >= 1

\* All components are 0 (the vector of no components included).
ZeroMagnitude(v) == \A i \in 1..Len(v) : v[i] = 0

\* The value the other implementation, or the same one with the arguments
\* exchanged, returns for the call in ret.
Cosine(op, a, b) ==
    IF op = "cosineSimilarity" THEN cosineSimilarity(a, b) ELSE vector_Similarity(a, b)

\* C25: memory.cosineSimilarity and vector.Similarity return exactly 0 when
\* one of the vectors has zero magnitude and when the two vectors differ in
\* length.
C25_ZeroVectorIsZero ==
    (/\ ret.op \in {"cosineSimilarity", "Similarity"}
     /\ (ZeroMagnitude(ret.a) \/ ZeroMagnitude(ret.b) \/ Len(ret.a) # Len(ret.b)))
        => ret.val = 0

\* C26: for vectors a and b of equal length cosine(a, b) = cosine(b, a),
\* cosine(a, a) = 1 when a is not the zero vector, and cosine(a, b) lies in
\* [-1, 1], in both implementations.
C26_CosineLaws ==
    (/\ ret.op \in {"cosineSimilarity", "Similarity"}
     /\ Len(ret.a) = Len(ret.b))
        => /\ FEq(ret.val, Cosine(ret.op, ret.b, ret.a))
           /\ (ret.a = ret.b /\ ~ZeroMagnitude(ret.a)) => FEq(ret.val, Scale)
           /\ FGe(ret.val, -Scale) /\ FGe(Scale, ret.val)

PriorityOf(id) ==
    LET i == CHOOSE j \in 1..Len(workingSet.items) : workingSet.items[j].ID = id
    IN  workingSet.items[i].Priority

\* C28: WorkingMemory.GetAll lists the entries in non-increasing priority.
C28_GetAllByPriority ==
    ret.op = "WorkingMemory.GetAll"
        => \A i, j \in 1..Len(ret.val) :
              i < j => PriorityOf(ret.val[i].ID) >= PriorityOf(ret.val[j].ID)

\* C29: Stats returns for each tier the number of entries the tier holds:
\* those GetRecent lists for the buffer, those with an entry for the
\* long-term tier, those GetAll lists for the working tier; after Clear the
\* three tiers hold nothing, and GetContext on three empty tiers returns no
\* fragment.
C29_StatsCountsTiers ==
    /\ ret.op = "Stats"
         => /\ ret.val.ShortTermCount =
                  Len(ConversationBuffer_GetRecent(shortTerm, Len(shortTerm.buffer)))
            /\ ret.val.LongTermCount = Cardinality(DOMAIN longTerm.entries)
            /\ ret.val.WorkingCount = Len(WorkingMemory_GetAll(workingSet))
    /\ ret.op = "Clear"
         => /\ ConversationBuffer_GetRecent(shortTerm, 1) = << >>
            /\ DOMAIN longTerm.entries = {}
            /\ DOMAIN longTerm.vectors = {}
            /\ WorkingMemory_GetAll(workingSet) = << >>
    /\ (/\ ret.op = "GetContext"
        /\ Len(shortTerm.buffer) = 0
        /\ DOMAIN longTerm.entries = {}
        /\ Len(workingSet.items) = 0)
         => ret.val = << >>

\* Stats was called with two buffer entries under one identifier and an
\* entry in each of the other tiers.
C29_Witness ==
    /\ ret.op = "Stats"
    /\ ret.val.ShortTermCount = 2
    /\ Cardinality(DOMAIN shortTerm.entries) = 1
    /\ ret.val.LongTermCount >= 1
    /\ ret.val.WorkingCount >= 1

\* The buffer after Add was called with each entry of adds, one call after
\* the other, on a new buffer of the given capacity.
RECURSIVE AddsInTurn(_, _)
AddsInTurn(maxSize, adds) ==
    IF adds = << >> THEN NewConversationBuffer(maxSize)
    ELSE ConversationBuffer_Add(AddsInTurn(maxSize, SubSeq(adds, 1, Len(adds) - 1)),
                                adds[Len(adds)])

\* The goroutines between the Lock and the Unlock of AddShortTerm.
InAddShortTerm == {g \in Adders : pc.short[g].at # "idle"}

\* C30: at most one goroutine is inside AddShortTerm; whenever none is, the
\* buffer is the one the calls made so far leave when run one after the
\* other in the order they took the lock, and up to capacity it holds
\* exactly their entries in that order; Stats and GetContext run only while
\* no goroutine is inside AddShortTerm.
C30_AddShortTermSerialized ==
    /\ [](/\ Cardinality(InAddShortTerm) <= 1
          /\ InAddShortTerm = {}
               => /\ shortTerm = AddsInTurn(config.ShortTermMax, hist.adds)
                  /\ hist.n <= config.ShortTermMax
                       => BufferValues(shortTerm) = hist.adds)
    /\ [][(ret' # ret /\ ret'.op \in {"Stats", "GetContext"})
             => InAddShortTerm = {}]_vars

\* Two calls with different contents are over, the buffer below capacity
\* before them, and Stats has counted their entries.
C30_Witness ==
    /\ InAddShortTerm = {}
    /\ hist.n = SmallShortTermMax
    /\ hist.adds[1].Content # hist.adds[2].Content
    /\ ret.op = "Stats"
    /\ ret.val.ShortTermCount = SmallShortTermMax

\* C31: a GetContext called with a nil or empty query vector returns no
\* [MEMORY] fragment, whatever the long-term tier holds and whatever the
\* configured similarityCut.
C31_NoQueryNoMemoryFragment ==
    (ret.op = "GetContext" /\ ret.embedding = << >>)
        => \A i \in 1..Len(ret.val) : ret.val[i].tag # "MEMORY"

\* C32: Remove(id) removes exactly one entry with that identifier whenever
\* the buffer holds one, keeps the other entries in their order, and leaves
\* the buffer and its index as they were when no entry has the identifier.
C32_RemoveExactlyThat ==
    [][(ret'.op = "Remove" /\ (ret' # ret \/ shortTerm' # shortTerm))
          => LET vals == BufferValues(shortTerm)
                 id   == ret'.id
             IN  IF \E i \in 1..Len(vals) : vals[i].ID = id
                 THEN \E i \in 1..Len(vals) :
                         /\ vals[i].ID = id
                         /\ BufferValues(shortTerm') = RemoveAt(vals, i)
                 ELSE shortTerm' = shortTerm]_vars

\* C33: GetRecent(count) with count >= 0 returns min(count, Len()) entries,
\* the most recent first, and leaves the list and the index as they were.
C33_GetRecentPure ==
    [][(ret'.op = "GetRecent" /\ ret' # ret /\ ret'.count >= 0)
          => LET vals == BufferValues(shortTerm)
                 n    == Len(vals)
             IN  /\ ~ret'.panic
                 /\ Len(ret'.val) = Min(ret'.count, n)
                 /\ \A i \in 1..Len(ret'.val) : ret'.val[i] = vals[n + 1 - i]
                 /\ shortTerm' = shortTerm]_vars

\* C34: once RevokeAPIKey(key) has returned nil, every ValidateAPIKey(key)
\* fails, with ErrUnauthorized while the key has a record, and every
\* CheckScope(key, s) is false.
C34_RevokedStaysRevoked ==
    /\ (ret.op = "ValidateAPIKey" /\ ret.key \in sm.revoked)
         => /\ ret.err # "nil"
            /\ ret.existed => ret.err = "ErrUnauthorized"
    /\ (ret.op = "CheckScope" /\ ret.key \in sm.revoked) => ~ret.val

\* C38: a session id that was seen past its ExpiresAt is never validated
\* again.
C38_ExpiredStaysExpired ==
    (ret.op = "ValidateSession" /\ ret.id \in sm.expired) => ret.err # "nil"

\* The largest priority among the items of the working tier.
MaxPriority == CHOOSE p \in {workingSet.items[j].Priority : j \in 1..Len(workingSet.items)} :
                  \A j \in 1..Len(workingSet.items) : workingSet.items[j].Priority <= p

\* C35: every item of the working tier has the priority Add read for it (0
\* without an integer priority), none exceeds its parent in the heap, and
\* the first entry of GetAll and the first [WORKING] fragment of GetContext
\* have the largest priority held.
C35_MaxHeap ==
    LET items == workingSet.items
    IN  /\ \A j \in 1..Len(items) : items[j].Priority = ContentPriority[items[j].Content]
        /\ \A j \in 2..Len(items) : items[j].Priority <= items[j \div 2].Priority
        /\ (ret.op = "WorkingMemory.GetAll" /\ Len(ret.val) > 0)
              => ContentPriority[ret.val[1].Content] = MaxPriority
        /\ (ret.op = "GetContext" /\ Len(ret.val) > 0 /\ ret.val[1].tag = "WORKING")
              => ContentPriority[ret.val[1].Content] = MaxPriority

\* GetContext has listed a tier in which a later entry of larger priority
\* was sifted above earlier ones, next to an entry without an int priority.
C35_Witness ==
    /\ ret.op = "GetContext"
    /\ Len(ret.val) = MaxHeapH
    /\ ret.val[1].tag = "WORKING"
    /\ ret.val[1].Content = "p2"
    /\ \E j \in 2..Len(workingSet.items) : workingSet.items[j].Content = "p0"
    /\ \E j \in 2..Len(workingSet.items) : workingSet.items[j].Content = "p1"

\* C36: a caller holds the lock of a tier only inside the store lock, and
\* whatever methods the callers call concurrently, every call returns,
\* given that every embedding call returns: no caller stays inside a call
\* for ever, it is outside of one again and again.
TierInsideStore ==
    (locks.vm # FreeMutex \/ locks.wm # FreeMutex) =>
        (locks.m.writer # "none" \/ locks.m.readers > 0)

C36_EveryCallReturns ==
    /\ []TierInsideStore
    /\ \A c \in Callers : []<>(pc.call[c].at = "idle")

\* Two callers are inside calls at once, one waiting to read-lock the store
\* that the other holds locked as it waits for its embedding.
C36_Witness ==
    \E c, d \in Callers :
        /\ c # d
        /\ CallAt(c, "Embed")
        /\ CallAt(d, "RLock")
        /\ Head(pc.call[d].script).mu = "m"

\* C37: the index of the ConversationBuffer agrees with its list: as many
\* keys as list elements, every element found under its identifier, and
\* every key leading to an element of the list that carries that identifier.
C37_IndexConsistent ==
    LET l == shortTerm.buffer
        e == shortTerm.entries
    IN  /\ Cardinality(DOMAIN e) = ConversationBuffer_Len(shortTerm)
        /\ \A i \in 1..Len(l) :
               /\ l[i].Value.ID \in DOMAIN e
               /\ e[l[i].Value.ID] = l[i].node
        /\ \A k \in DOMAIN e :
               \E i \in 1..Len(l) : l[i].node = e[k] /\ l[i].Value.ID = k

-----------------------------------------------------------------------------
(* Package chat: the ChatManager.  A session is its list of messages; a    *)
(* message carries, besides its role, content and timestamp, the serial    *)
(* number of the AddMessage call that made it (cm.serial counts the calls), *)
(* which tells one message from an equal copy of another.                  *)

MaxMemoryC   == 2     \* largest maxMemory given to NewChatManager
MaxMessagesC == 4     \* AddMessage calls on one ChatManager

Roles == {"user", "assistant", "system"}

ChatIDs == {"s1", "s2"}

\* The messages of a session after AddMessage appended message to msgs:
\* beyond maxMemory messages, the "system" messages in order, then the last
\* (maxMemory - their number) messages of the whole list, if that is positive.
Prune(msgs, maxMemory) ==
    IF Len(msgs) > maxMemory
    THEN LET pruned    == SelectSeq(msgs, LAMBDA msg : msg.Role = "system")
             remaining == maxMemory - Len(pruned)
             start     == IF Len(msgs) - remaining < 0 THEN 0
                          ELSE Len(msgs) - remaining
         IN  IF remaining > 0
             THEN pruned \o SubSeq(msgs, start + 1, Len(msgs))
             ELSE pruned
    ELSE msgs

\* NewChatManager(maxMemory).
ChatNew(maxMemory) ==
    /\ cm' = NewChatManager(maxMemory)
    /\ ret' = [op |-> "NewChatManager", maxMemory |-> maxMemory]
    /\ UNCHANGED <<memoryVars, now, sm, mq>>

\* ChatManager.CreateSession(id, systemPrompt): a new, empty session takes
\* the place of any session with that id.
ChatCreateSession(id) ==
    /\ cm' = [cm EXCEPT !.sessions =
                MapPut(@, id, [ID |-> id, Messages |-> <<>>, CreatedAt |-> now])]
    /\ ret' = [op |-> "CreateSession", id |-> id]
    /\ UNCHANGED <<memoryVars, now, sm, mq>>

\* ChatManager.AddMessage(sessionID, role, content).
ChatAddMessage(sessionID, role, content) ==
    /\ IF sessionID \notin DOMAIN cm.sessions
       THEN /\ ret' = [op |-> "AddMessage", err |-> TRUE, sessionID |-> sessionID]
            /\ cm' = cm
       ELSE LET message == [Role |-> role, Content |-> content,
                            Timestamp |-> now, serial |-> cm.serial + 1]
                msgs    == Append(cm.sessions[sessionID].Messages, message)
            IN  /\ cm' = [cm EXCEPT
                            !.sessions[sessionID].Messages =
                                Prune(msgs, cm.maxMemory),
                            !.serial = @ + 1]
                /\ ret' = [op |-> "AddMessage", err |-> FALSE,
                           sessionID |-> sessionID, message |-> message]
    /\ UNCHANGED <<memoryVars, now, sm, mq>>

\* ChatManager.GetMessages(sessionID).
ChatGetMessages(sessionID) ==
    /\ ret' = IF sessionID \in DOMAIN cm.sessions
              THEN [op |-> "GetMessages", err |-> FALSE,
                    val |-> cm.sessions[sessionID].Messages]
              ELSE [op |-> "GetMessages", err |-> TRUE]
    /\ UNCHANGED <<memoryVars, now, sm, cm, mq>>

\* ChatManager.DeleteSession(id).
ChatDeleteSession(id) ==
    /\ cm' = IF id \in DOMAIN cm.sessions
             THEN [cm EXCEPT !.sessions = MapDelete(@, id)]
             ELSE cm
    /\ ret' = [op |-> "DeleteSession", err |-> id \notin DOMAIN cm.sessions]
    /\ UNCHANGED <<memoryVars, now, sm, mq>>

ChatNext ==
    \/ \E maxMemory \in -1..MaxMemoryC : ChatNew(maxMemory)
    \/ \E id \in ChatIDs : ChatCreateSession(id)
    \/ \E id \in ChatIDs, role \in Roles :
           cm.serial < MaxMessagesC /\ ChatAddMessage(id, role, "c")
    \/ \E id \in ChatIDs : ChatGetMessages(id)
    \/ \E id \in ChatIDs : ChatDeleteSession(id)

SpecChat == BufInit /\ [][ChatNext]_vars

\* C39: after every AddMessage that found its session, the session holds at
\* most maxMemory messages, the message just added is one of them, and no
\* message is in the list twice.
C39_SessionBounded ==
    (ret.op = "AddMessage" /\ ~ret.err) =>
        LET msgs == cm.sessions[ret.sessionID].Messages
        IN  /\ Len(msgs) <= cm.maxMemory
            /\ \E i \in 1..Len(msgs) : msgs[i] = ret.message
            /\ \A i, j \in 1..Len(msgs) :
                   msgs[i].serial = msgs[j].serial => i = j

-----------------------------------------------------------------------------
(* Package chat: the MessageQueue.  The queue is a buffered channel, the    *)
(* context is its cancelled flag.  Enqueue and the worker each wait in a    *)
(* select; when several of its cases can proceed, select takes any one of   *)
(* them.  A send on a closed channel can proceed, and panics; a receive      *)
(* from a closed, empty channel can proceed, and yields the zero value.     *)
(* A panic ends the program.  Messages are told apart by the serial number  *)
(* of their Enqueue call; the zero value has ID 0 and no ReplyChan.          *)

MaxQueueSizeQ == 2     \* largest queueSize given to NewMessageQueue
MaxWorkersQ   == 2     \* largest number of workers
NumEnqueuers  == 2     \* goroutines that call Enqueue
MaxEnqueuesQ  == 2     \* Enqueue calls on the queue

Enqueuers == 1..NumEnqueuers

ZeroMessage == [ID |-> 0]

\* NewMessageQueue(queueSize, workers), its workers started.
NewMessageQueue(queueSize, workers) ==
    [made      |-> TRUE,
     cap       |-> queueSize,
     queue     |-> <<>>,
     closed    |-> FALSE,
     cancelled |-> FALSE,
     handler   |-> FALSE,
     workers   |-> [w \in 1..workers |-> "select"],
     enq       |-> [e \in Enqueuers |-> [at |-> "idle"]],
     shutdown  |-> "idle",
     serial    |-> 0,
     enqueued  |-> {},
     handled   |-> {},
     panicked  |-> FALSE]

\* The program runs: the queue is made and no goroutine has panicked.
Running == mq.made /\ ~mq.panicked

QueueNew(queueSize, workers) ==
    /\ ~mq.made
    /\ mq' = NewMessageQueue(queueSize, workers)
    /\ UNCHANGED <<memoryVars, now, sm, cm, ret>>

\* AddHandler("default", handler).
QueueAddHandler ==
    /\ Running
    /\ mq' = [mq EXCEPT !.handler = TRUE]
    /\ UNCHANGED <<memoryVars, now, sm, cm, ret>>

\* Enqueue(msg) is called and reaches its select; late records whether
\* Shutdown had cancelled the context by then.
EnqueueCall(e) ==
    /\ Running
    /\ mq.enq[e].at = "idle"
    /\ mq' = [mq EXCEPT !.enq[e] = [at |-> "select",
                                     msg |-> [ID |-> mq.serial + 1],
                                     late |-> mq.cancelled],
                        !.serial = @ + 1]
    /\ UNCHANGED <<memoryVars, now, sm, cm, ret>>

\* case <-mq.ctx.Done(): return context.Canceled.
EnqueueCanceled(e) ==
    /\ Running
    /\ mq.enq[e].at = "select"
    /\ mq.cancelled
    /\ mq' = [mq EXCEPT !.enq[e] = [at |-> "idle"]]
    /\ ret' = [op |-> "Enqueue", err |-> "context.Canceled",
               msg |-> mq.enq[e].msg, late |-> mq.enq[e].late]
    /\ UNCHANGED <<memoryVars, now, sm, cm>>

\* case mq.queue <- msg: return nil.  The channel is open and has room.
EnqueueSend(e) ==
    /\ Running
    /\ mq.enq[e].at = "select"
    /\ ~mq.closed
    /\ Len(mq.queue) < mq.cap
    /\ mq' = [mq EXCEPT !.queue = Append(@, mq.enq[e].msg),
                        !.enqueued = @ \cup {mq.enq[e].msg},
                        !.enq[e] = [at |-> "idle"]]
    /\ ret' = [op |-> "Enqueue", err |-> "nil",
               msg |-> mq.enq[e].msg, late |-> mq.enq[e].late]
    /\ UNCHANGED <<memoryVars, now, sm, cm>>

\* case mq.queue <- msg on the closed channel: panic.
EnqueuePanic(e) ==
    /\ Running
    /\ mq.enq[e].at = "select"
    /\ mq.closed
    /\ mq' = [mq EXCEPT !.panicked = TRUE]
    /\ ret' = [op |-> "Enqueue", err |-> "panic",
               msg |-> mq.enq[e].msg, late |-> mq.enq[e].late]
    /\ UNCHANGED <<memoryVars, now, sm, cm>>

\* The worker's case <-mq.ctx.Done(): return.
WorkerDone(w) ==
    /\ Running
    /\ mq.workers[w] = "select"
    /\ mq.cancelled
    /\ mq' = [mq EXCEPT !.workers[w] = "done"]
    /\ UNCHANGED <<memoryVars, now, sm, cm, ret>>

\* The worker's case msg := <-mq.queue and ProcessWithHandler("default",
\* msg), which calls the handler if one is registered; msg.ReplyChan is nil.
WorkerReceive(w) ==
    /\ Running
    /\ mq.workers[w] = "select"
    /\ mq.queue # <<>> \/ mq.closed
    /\ LET msg == IF mq.queue # <<>> THEN Head(mq.queue) ELSE ZeroMessage
       IN  mq' = [mq EXCEPT
                    !.queue   = IF @ # <<>> THEN Tail(@) ELSE @,
                    !.handled = IF mq.handler THEN @ \cup {msg} ELSE @]
    /\ UNCHANGED <<memoryVars, now, sm, cm, ret>>

\* Shutdown, first statement: mq.cancel().
ShutdownCancel ==
    /\ Running
    /\ mq.shutdown = "idle"
    /\ mq' = [mq EXCEPT !.cancelled = TRUE, !.shutdown = "cancelled"]
    /\ UNCHANGED <<memoryVars, now, sm, cm, ret>>

\* Shutdown, second statement: close(mq.queue).
ShutdownClose ==
    /\ Running
    /\ mq.shutdown = "cancelled"
    /\ mq' = [mq EXCEPT !.closed = TRUE, !.shutdown = "closed"]
    /\ UNCHANGED <<memoryVars, now, sm, cm, ret>>

\* Shutdown, third statement: mq.wg.Wait() returns once every worker has.
ShutdownWait ==
    /\ Running
    /\ mq.shutdown = "closed"
    /\ \A w \in DOMAIN mq.workers : mq.workers[w] = "done"
    /\ mq' = [mq EXCEPT !.shutdown = "done"]
    /\ ret' = [op |-> "Shutdown"]
    /\ UNCHANGED <<memoryVars, now, sm, cm>>

QueueNext ==
    \/ \E queueSize \in 1..MaxQueueSizeQ, workers \in 1..MaxWorkersQ :
           QueueNew(queueSize, workers)
    \/ QueueAddHandler
    \/ \E e \in Enqueuers : mq.made /\ mq.serial < MaxEnqueuesQ /\ EnqueueCall(e)
    \/ \E e \in Enqueuers : EnqueueCanceled(e)
    \/ \E e \in Enqueuers : EnqueueSend(e)
    \/ \E e \in Enqueuers : EnqueuePanic(e)
    \/ \E w \in 1..MaxWorkersQ : mq.made /\ w \in DOMAIN mq.workers /\ WorkerDone(w)
    \/ \E w \in 1..MaxWorkersQ : mq.made /\ w \in DOMAIN mq.workers /\ WorkerReceive(w)
    \/ ShutdownCancel
    \/ ShutdownClose
    \/ ShutdownWait

SpecQueue == BufInit /\ [][QueueNext]_vars

\* C40: no Enqueue sends on the closed channel (no goroutine panics), an
\* Enqueue called after Shutdown cancelled the context returns
\* context.Canceled, and the handler is only ever called for messages that
\* were enqueued.
C40_ShutdownSafe ==
    mq.made =>
        /\ ~mq.panicked
        /\ (ret.op = "Enqueue" /\ ret.late) => ret.err = "context.Canceled"
        /\ mq.handled \subseteq mq.enqueued

====
